---- MODULE Spec2Model ----
(***************************************************************************)
(* Herbal Moonlight: the commit-reveal game contract                       *)
(* (contracts/herbal-moonlight/src/lib.rs) as a state machine.             *)
(*                                                                         *)
(* State: the temporary storage map Session(session_id) -> GameSession,    *)
(* the calls received by the Game Hub, and the outcome of the last         *)
(* contract invocation.  One action per contract entry point; an action    *)
(* models the whole invocation, including the case where it returns an     *)
(* error or traps (then storage is left as it was).                        *)
(***************************************************************************)
EXTENDS Integers, Sequences, FiniteSets, TLC

VARIABLES sessions, hub, last

vars == <<sessions, hub, last>>

----------------------------------------------------------------------------
(* Program constants                                                       *)

GRID_SIZE == 5
CREATURE_STARTING_HP == 6
JOURNAL_LEN == 73
COMMITMENT_LEN == 32
GRID_CELLS == 25
MAX_PLANTS == 7
SALT_LEN == 16

----------------------------------------------------------------------------
(* Bounds of the model                                                     *)

\* move proposals are drawn from 0..MaxCoord and HugeCoord
MaxCoord == 5
\* plant_type bytes of submitted journals are drawn from 0..MaxPlantByte
MaxPlantByte == 4
\* over-long journals have JOURNAL_LEN + 1 .. MaxJournalLen bytes
MaxJournalLen == 74
\* layouts have 0..MaxPlanted plants in their first cells
MaxPlanted == 9

----------------------------------------------------------------------------
(* Values                                                                  *)

NoSession == [none |-> TRUE]

\* session ids with their keccak256(be32(id))[0]:
\*   4 -> 204 (FullMoon), 0 -> 232 (NewMoon), 1 -> 81 (Balanced)
SessionIds == {0, 1, 4}

Addrs == {"alice", "bob"}

\* (gardener_points, creature_points) pairs offered to start_game
Stakes == {<<100, 100>>, <<0, 250>>}

Bytes32(fill, lastByte) == [i \in 1..COMMITMENT_LEN |-> IF i = COMMITMENT_LEN THEN lastByte ELSE fill]

\* BytesN::from_array(&env, &[0u8; 32])
ZeroCommitment == Bytes32(0, 0)

\* commitments submitted by the gardener: they differ in the last byte only
Commitments == {Bytes32(0, 0), Bytes32(0, 1)}

\* first byte of keccak256 of the big-endian session id
KeccakFirstByte(session_id) ==
    CASE session_id = 0 -> 232
      [] session_id = 1 -> 81
      [] session_id = 4 -> 204
      [] session_id = 34 -> 20
      [] session_id = 46 -> 240
      [] session_id = 57 -> 19
      [] session_id = 69 -> 0
      [] session_id = 82 -> 239
      [] session_id = 90 -> 100
      [] session_id = 118 -> 200
      [] session_id = 119 -> 140
      [] session_id = 156 -> 139
      [] session_id = 201 -> 119
      [] session_id = 222 -> 219
      [] session_id = 225 -> 120
      [] session_id = 241 -> 99
      [] session_id = 274 -> 220
      [] session_id = 335 -> 40
      [] session_id = 578 -> 255
      [] session_id = 582 -> 39
      [] session_id = 908 -> 199

\* sha256 as an ideal (injective) hash: the digest is tagged by its preimage
Sha256(bytes) == <<"sha256", bytes>>

----------------------------------------------------------------------------
(* Internal helper functions                                               *)

SatSub(a, b) == IF a > b THEN a - b ELSE 0

\* faulty variant: the FullMoon range reaches one value too far
determine_moon_phase_TwentyFull(session_id) ==
    LET seed_val == KeccakFirstByte(session_id) % 100
    IN  IF seed_val <= 20 THEN "FullMoon"
        ELSE IF seed_val <= 39 THEN "NewMoon"
        ELSE "Balanced"

determine_moon_phase(session_id) ==
    LET seed_val == KeccakFirstByte(session_id) % 100
    IN  IF seed_val <= 19 THEN "FullMoon"
        ELSE IF seed_val <= 39 THEN "NewMoon"
        ELSE "Balanced"

base_damage_for_plant(plant_type) ==
    CASE plant_type = 1 -> 1
      [] plant_type = 2 -> 2
      [] plant_type = 3 -> 3
      [] OTHER -> 0

calculate_damage(base_damage, moon_phase) ==
    CASE moon_phase = "FullMoon" -> SatSub(base_damage, 1)
      [] moon_phase = "NewMoon" -> base_damage + 1
      [] OTHER -> base_damage

\* faulty variant: a short journal is read as if padded with zero bytes
extract_commitment_ZeroPadded(journal) ==
    << [i \in 1..COMMITMENT_LEN |-> IF i <= Len(journal) THEN journal[i] ELSE 0] >>

\* None is modelled as <<>>, Some(c) as <<c>>
extract_commitment(journal) ==
    IF Len(journal) < COMMITMENT_LEN THEN <<>>
    ELSE <<SubSeq(journal, 1, COMMITMENT_LEN)>>

\* faulty variant: the two coordinate bytes are read in the wrong order
decode_journal_SwappedXY(journal) ==
    IF Len(journal) # JOURNAL_LEN THEN <<>>
    ELSE << [x |-> journal[34],
             y |-> journal[33],
             has_plant |-> journal[35] # 0,
             plant_type |-> journal[36],
             damage_dealt |-> journal[37]] >>

\* faulty variant: only a journal that is too short is refused
decode_journal_AtLeast(journal) ==
    IF Len(journal) < JOURNAL_LEN THEN <<>>
    ELSE << [x |-> journal[33],
             y |-> journal[34],
             has_plant |-> journal[35] # 0,
             plant_type |-> journal[36],
             damage_dealt |-> journal[37]] >>

\* None is modelled as <<>>, Some(result) as <<result>>
decode_journal(journal) ==
    IF Len(journal) # JOURNAL_LEN THEN <<>>
    ELSE << [x |-> journal[33],
             y |-> journal[34],
             has_plant |-> journal[35] # 0,
             plant_type |-> journal[36],
             damage_dealt |-> journal[37]] >>

----------------------------------------------------------------------------
(* Results of an invocation                                                *)

\* the host aborts the invocation when require_auth is not satisfied
AuthFailed == "AuthFailed"

NoResult == <<>>

\* what an invocation was and how it ended: the entry point, the session id,
\* the arguments (recorded for start_game and commit_garden), the addresses
\* that authorized it, the error ("Ok" when none) and the value returned
Outcome(op, session_id, args, auth, err, result) ==
    [op |-> op, session_id |-> session_id, args |-> args, auth |-> auth,
     err |-> err, result |-> result]

\* env.storage().temporary().has(&key)
HasSession(session_id) == sessions[session_id] # NoSession

----------------------------------------------------------------------------
(* start_game                                                              *)

\* faulty variant: the Full Moon bonus is forgotten
StartingHp_NoBonus(moon_phase) == CREATURE_STARTING_HP

\* "Calculate starting HP based on moon phase"
StartingHp(moon_phase) ==
    IF moon_phase = "FullMoon" THEN CREATURE_STARTING_HP + 2
    ELSE CREATURE_STARTING_HP

\* the GameSession record start_game stores
NewSession(session_id, gardener, creature, gardener_points, creature_points) ==
    LET moon_phase == determine_moon_phase(session_id)
        creature_hp == StartingHp(moon_phase)
    IN  [session_id |-> session_id,
         gardener |-> gardener,
         creature |-> creature,
         gardener_points |-> gardener_points,
         creature_points |-> creature_points,
         garden_commitment |-> ZeroCommitment,
         creature_x |-> 2,
         creature_y |-> 0,
         creature_hp |-> creature_hp,
         phase |-> "WaitingForCommitment",
         moon_phase |-> moon_phase,
         revealed_cells |-> <<>>,
         turn_number |-> 0,
         damage_reduction |-> 0]

\* faulty variants of the checks of start_game: the stored-session check is
\* missing; the self-play check is missing
StartError_NoCollisionCheck(session_id, gardener, creature, auth) ==
    IF gardener = creature THEN "SelfPlayNotAllowed"
    ELSE IF ~({gardener, creature} \subseteq auth) THEN AuthFailed
    ELSE "Ok"

StartError_NoSelfPlayCheck(session_id, gardener, creature, auth) ==
    IF HasSession(session_id) THEN "AlreadyInitialized"
    ELSE IF ~({gardener, creature} \subseteq auth) THEN AuthFailed
    ELSE "Ok"

\* faulty variant: a session stored under any id refuses the start
StartError_AnySessionStored(session_id, gardener, creature, auth) ==
    IF gardener = creature THEN "SelfPlayNotAllowed"
    ELSE IF \E s \in DOMAIN sessions : HasSession(s) THEN "AlreadyInitialized"
    ELSE IF ~({gardener, creature} \subseteq auth) THEN AuthFailed
    ELSE "Ok"

\* the checks of start_game in the order the code makes them; "Ok" when all pass
StartError(session_id, gardener, creature, auth) ==
    IF gardener = creature THEN "SelfPlayNotAllowed"
    ELSE IF HasSession(session_id) THEN "AlreadyInitialized"
    ELSE IF ~({gardener, creature} \subseteq auth) THEN AuthFailed
    ELSE "Ok"

start_game(session_id, gardener, creature, gardener_points, creature_points, auth) ==
    LET err == StartError(session_id, gardener, creature, auth)
    IN  /\ last' = Outcome("start_game", session_id,
                           <<gardener, creature, gardener_points, creature_points>>,
                           auth, err, NoResult)
        /\ IF err = "Ok"
           THEN /\ hub' = [hub EXCEPT ![session_id] =
                       Append(@, [call |-> "start_game",
                                  player1 |-> gardener,
                                  player2 |-> creature,
                                  player1_points |-> gardener_points,
                                  player2_points |-> creature_points,
                                  session_stored |-> HasSession(session_id)])]
                /\ sessions' = [sessions EXCEPT ![session_id] =
                       NewSession(session_id, gardener, creature,
                                  gardener_points, creature_points)]
           ELSE UNCHANGED <<sessions, hub>>

----------------------------------------------------------------------------
(* commit_garden                                                           *)

\* faulty variants of the phase check of commit_garden
CommitPhaseOk_Unchecked(session) == TRUE

CommitPhaseOk_NotFinished(session) == session.phase # "Finished"

\* "Must be in WaitingForCommitment phase"
CommitPhaseOk(session) == session.phase = "WaitingForCommitment"

\* faulty variant: commit_garden asks the creature, not the gardener, to authorize
CommitError_CreatureAuth(session_id, auth) ==
    IF ~HasSession(session_id) THEN "SessionNotFound"
    ELSE IF sessions[session_id].creature \notin auth THEN AuthFailed
    ELSE IF ~CommitPhaseOk(sessions[session_id]) THEN "InvalidPhase"
    ELSE "Ok"

CommitError(session_id, auth) ==
    IF ~HasSession(session_id) THEN "SessionNotFound"
    ELSE IF sessions[session_id].gardener \notin auth THEN AuthFailed
    ELSE IF ~CommitPhaseOk(sessions[session_id]) THEN "InvalidPhase"
    ELSE "Ok"

commit_garden(session_id, garden_commitment, auth) ==
    LET err == CommitError(session_id, auth)
    IN  /\ last' = Outcome("commit_garden", session_id, <<garden_commitment>>, auth, err, NoResult)
        /\ IF err = "Ok"
           THEN sessions' = [sessions EXCEPT ![session_id] =
                    [@ EXCEPT !.garden_commitment = garden_commitment,
                              !.phase = "Playing"]]
           ELSE UNCHANGED sessions
        /\ UNCHANGED hub

----------------------------------------------------------------------------
(* creature_move                                                           *)

\* faulty variant: a proposal that stays in the row is accepted as well
ValidMove_SameRow(creature_x, creature_y, new_x, new_y) ==
    LET y_diff == SatSub(new_y, creature_y)
        x_diff == IF new_x > creature_x THEN new_x - creature_x
                  ELSE creature_x - new_x
    IN  /\ ~(y_diff > 1 \/ new_x >= GRID_SIZE \/ new_y >= GRID_SIZE)
        /\ ~(creature_y > 0 /\ x_diff > 1)

\* faulty variant: the proposal is not held inside the grid
ValidMove_NoGridLimit(creature_x, creature_y, new_x, new_y) ==
    LET y_diff == SatSub(new_y, creature_y)
        x_diff == IF new_x > creature_x THEN new_x - creature_x
                  ELSE creature_x - new_x
    IN  /\ ~(y_diff # 1)
        /\ ~(creature_y > 0 /\ x_diff > 1)

\* faulty variant: a step of two rows is accepted as well
ValidMove_TwoRows(creature_x, creature_y, new_x, new_y) ==
    LET y_diff == SatSub(new_y, creature_y)
        x_diff == IF new_x > creature_x THEN new_x - creature_x
                  ELSE creature_x - new_x
    IN  /\ ~(y_diff \notin {1, 2} \/ new_x >= GRID_SIZE \/ new_y >= GRID_SIZE)
        /\ ~(creature_y > 0 /\ x_diff > 1)

\* faulty variant: the lateral rule is applied to the first move as well
ValidMove_NoEntryChoice(creature_x, creature_y, new_x, new_y) ==
    LET y_diff == SatSub(new_y, creature_y)
        x_diff == IF new_x > creature_x THEN new_x - creature_x
                  ELSE creature_x - new_x
    IN  /\ ~(y_diff # 1 \/ new_x >= GRID_SIZE \/ new_y >= GRID_SIZE)
        /\ ~(x_diff > 1)

\* the movement rules of creature_move: TRUE when the proposal is accepted
ValidMove(creature_x, creature_y, new_x, new_y) ==
    LET y_diff == SatSub(new_y, creature_y)
        x_diff == IF new_x > creature_x THEN new_x - creature_x
                  ELSE creature_x - new_x
    IN  /\ ~(y_diff # 1 \/ new_x >= GRID_SIZE \/ new_y >= GRID_SIZE)
        /\ ~(creature_y > 0 /\ x_diff > 1)

\* faulty variant: a move is also taken before the garden is committed
MovePhaseOk_BeforeCommit(session) == session.phase \in {"Playing", "WaitingForCommitment"}

\* "Must be in Playing phase"
MovePhaseOk(session) == session.phase = "Playing"

MoveError(session_id, new_x, new_y, auth) ==
    IF ~HasSession(session_id) THEN "SessionNotFound"
    ELSE IF sessions[session_id].creature \notin auth THEN AuthFailed
    ELSE IF ~MovePhaseOk(sessions[session_id]) THEN "InvalidPhase"
    ELSE IF ~ValidMove(sessions[session_id].creature_x,
                       sessions[session_id].creature_y, new_x, new_y)
         THEN "InvalidMove"
    ELSE "Ok"

\* faulty variant: the column of the proposal is not stored
creature_move_ColumnKept(session_id, new_x, new_y, auth) ==
    LET err == MoveError(session_id, new_x, new_y, auth)
    IN  /\ last' = Outcome("creature_move", session_id, <<>>, auth, err, NoResult)
        /\ IF err = "Ok"
           THEN sessions' = [sessions EXCEPT ![session_id] =
                    [@ EXCEPT !.creature_y = new_y,
                              !.phase = "WaitingForProof",
                              !.turn_number = @ + 1]]
           ELSE UNCHANGED sessions
        /\ UNCHANGED hub

creature_move(session_id, new_x, new_y, auth) ==
    LET err == MoveError(session_id, new_x, new_y, auth)
    IN  /\ last' = Outcome("creature_move", session_id, <<>>, auth, err, NoResult)
        /\ IF err = "Ok"
           THEN sessions' = [sessions EXCEPT ![session_id] =
                    [@ EXCEPT !.creature_x = new_x,
                              !.creature_y = new_y,
                              !.phase = "WaitingForProof",
                              !.turn_number = @ + 1]]
           ELSE UNCHANGED sessions
        /\ UNCHANGED hub

----------------------------------------------------------------------------
(* reveal_cell                                                             *)

\* faulty variant: with an empty seal the journal passes whatever its hash
ProofAccepted_DevUnchecked(journal_bytes, journal_hash, seal) ==
    IF Len(seal) = 0
    THEN TRUE
    ELSE Sha256(journal_bytes) = journal_hash

\* "Verify proof based on mode": TRUE when the journal passes.  Both branches
\* of the code compare sha256(journal_bytes) with journal_hash; the Groth16
\* call of the production branch is commented out in the source.
ProofAccepted(journal_bytes, journal_hash, seal) ==
    IF Len(seal) = 0
    THEN Sha256(journal_bytes) = journal_hash
    ELSE Sha256(journal_bytes) = journal_hash

\* faulty variant: the damage reduction is not reset when it is applied
ApplyDamage_ReductionKept(session, result) ==
    IF result.has_plant
    THEN LET base_damage == base_damage_for_plant(result.plant_type)
             moon_adjusted == calculate_damage(base_damage, session.moon_phase)
             after_reduction == SatSub(moon_adjusted, session.damage_reduction)
             final_damage == IF after_reduction = 0 THEN 1 ELSE after_reduction
         IN  [session |-> [session EXCEPT
                              !.damage_reduction = IF result.plant_type = 1 THEN 1 ELSE @,
                              !.creature_hp = SatSub(@, final_damage)],
              result |-> [result EXCEPT !.damage_dealt = final_damage]]
    ELSE [session |-> session, result |-> result]

\* faulty variant: every Lavender adds 1 to the damage reduction
ApplyDamage_ReductionAdded(session, result) ==
    IF result.has_plant
    THEN LET base_damage == base_damage_for_plant(result.plant_type)
             moon_adjusted == calculate_damage(base_damage, session.moon_phase)
             after_reduction == SatSub(moon_adjusted, session.damage_reduction)
             final_damage == IF after_reduction = 0 THEN 1 ELSE after_reduction
         IN  [session |-> [session EXCEPT
                              !.damage_reduction = IF result.plant_type = 1 THEN @ + 1 ELSE 0,
                              !.creature_hp = SatSub(@, final_damage)],
              result |-> [result EXCEPT !.damage_dealt = final_damage]]
    ELSE [session |-> session, result |-> result]

\* faulty variant: the damage byte of the journal is what is dealt
ApplyDamage_JournalDamage(session, result) ==
    IF result.has_plant
    THEN LET final_damage == result.damage_dealt
         IN  [session |-> [session EXCEPT
                              !.damage_reduction = IF result.plant_type = 1 THEN 1 ELSE 0,
                              !.creature_hp = SatSub(@, final_damage)],
              result |-> [result EXCEPT !.damage_dealt = final_damage]]
    ELSE [session |-> session, result |-> result]

\* faulty variant: the damage is not raised to the minimum of 1
ApplyDamage_NoMinimum(session, result) ==
    IF result.has_plant
    THEN LET base_damage == base_damage_for_plant(result.plant_type)
             moon_adjusted == calculate_damage(base_damage, session.moon_phase)
             final_damage == SatSub(moon_adjusted, session.damage_reduction)
         IN  [session |-> [session EXCEPT
                              !.damage_reduction = IF result.plant_type = 1 THEN 1 ELSE 0,
                              !.creature_hp = SatSub(@, final_damage)],
              result |-> [result EXCEPT !.damage_dealt = final_damage]]
    ELSE [session |-> session, result |-> result]

\* "Apply damage if plant exists": the session and result after the damage
\* block, for a result whose plant type has been validated
ApplyDamage(session, result) ==
    IF result.has_plant
    THEN LET base_damage == base_damage_for_plant(result.plant_type)
             moon_adjusted == calculate_damage(base_damage, session.moon_phase)
             after_reduction == SatSub(moon_adjusted, session.damage_reduction)
             final_damage == IF after_reduction = 0 THEN 1 ELSE after_reduction
         IN  [session |-> [session EXCEPT
                              !.damage_reduction = IF result.plant_type = 1 THEN 1 ELSE 0,
                              !.creature_hp = SatSub(@, final_damage)],
              result |-> [result EXCEPT !.damage_dealt = final_damage]]
    ELSE [session |-> session, result |-> result]

\* faulty variant: reaching the house does not finish the game
WinCheck_HouseIgnored(session) ==
    IF session.creature_hp = 0
    THEN [phase |-> "Finished", game_ended |-> TRUE, gardener_won |-> TRUE]
    ELSE [phase |-> "Playing", game_ended |-> FALSE, gardener_won |-> FALSE]

\* faulty variant: the game that ends at the house is not flagged as ended
WinCheck_GoalUnreported(session) ==
    IF session.creature_hp = 0
    THEN [phase |-> "Finished", game_ended |-> TRUE, gardener_won |-> TRUE]
    ELSE IF session.creature_y >= 4
    THEN [phase |-> "Finished", game_ended |-> FALSE, gardener_won |-> FALSE]
    ELSE [phase |-> "Playing", game_ended |-> FALSE, gardener_won |-> FALSE]

\* faulty variant: reaching the house is tested before the creature's death
WinCheck_GoalFirst(session) ==
    IF session.creature_y >= 4
    THEN [phase |-> "Finished", game_ended |-> TRUE, gardener_won |-> FALSE]
    ELSE IF session.creature_hp = 0
    THEN [phase |-> "Finished", game_ended |-> TRUE, gardener_won |-> TRUE]
    ELSE [phase |-> "Playing", game_ended |-> FALSE, gardener_won |-> FALSE]

\* "Check win conditions": phase, game_ended and gardener_won
WinCheck(session) ==
    IF session.creature_hp = 0
    THEN [phase |-> "Finished", game_ended |-> TRUE, gardener_won |-> TRUE]
    ELSE IF session.creature_y >= 4
    THEN [phase |-> "Finished", game_ended |-> TRUE, gardener_won |-> FALSE]
    ELSE [phase |-> "Playing", game_ended |-> FALSE, gardener_won |-> FALSE]

\* faulty variant: a reveal is also taken after the game has finished
RevealPhaseOk_AfterFinish(session) == session.phase \in {"WaitingForProof", "Finished"}

\* "Must be in WaitingForProof phase"
RevealPhaseOk(session) == session.phase = "WaitingForProof"

\* faulty variant: the digest is compared before the commitment
RevealError_ProofFirst(session_id, journal_bytes, journal_hash, seal, auth) ==
    IF ~HasSession(session_id) THEN "SessionNotFound"
    ELSE LET session == sessions[session_id]
             journal_commitment == extract_commitment(journal_bytes)
             decoded == decode_journal(journal_bytes)
         IN  IF session.gardener \notin auth THEN AuthFailed
             ELSE IF ~RevealPhaseOk(session) THEN "InvalidPhase"
             ELSE IF ~ProofAccepted(journal_bytes, journal_hash, seal)
                  THEN "ProofVerificationFailed"
             ELSE IF journal_commitment = <<>> THEN "CommitmentMismatch"
             ELSE IF journal_commitment[1] # session.garden_commitment
                  THEN "CommitmentMismatch"
             ELSE IF decoded = <<>> THEN "ProofVerificationFailed"
             ELSE IF decoded[1].x # session.creature_x \/ decoded[1].y # session.creature_y
                  THEN "InvalidCoordinates"
             ELSE IF decoded[1].has_plant
                     /\ (decoded[1].plant_type < 1 \/ decoded[1].plant_type > 3)
                  THEN "ProofVerificationFailed"
             ELSE "Ok"

\* faulty variant: of the unrecognized plant types only those above 3 are refused
RevealError_TypeZeroAdmitted(session_id, journal_bytes, journal_hash, seal, auth) ==
    IF ~HasSession(session_id) THEN "SessionNotFound"
    ELSE LET session == sessions[session_id]
             journal_commitment == extract_commitment(journal_bytes)
             decoded == decode_journal(journal_bytes)
         IN  IF session.gardener \notin auth THEN AuthFailed
             ELSE IF ~RevealPhaseOk(session) THEN "InvalidPhase"
             ELSE IF journal_commitment = <<>> THEN "CommitmentMismatch"
             ELSE IF journal_commitment[1] # session.garden_commitment
                  THEN "CommitmentMismatch"
             ELSE IF ~ProofAccepted(journal_bytes, journal_hash, seal)
                  THEN "ProofVerificationFailed"
             ELSE IF decoded = <<>> THEN "ProofVerificationFailed"
             ELSE IF decoded[1].x # session.creature_x \/ decoded[1].y # session.creature_y
                  THEN "InvalidCoordinates"
             ELSE IF decoded[1].has_plant /\ decoded[1].plant_type > 3
                  THEN "ProofVerificationFailed"
             ELSE "Ok"

\* the checks of reveal_cell in the order the code makes them; "Ok" when all pass
RevealError(session_id, journal_bytes, journal_hash, seal, auth) ==
    IF ~HasSession(session_id) THEN "SessionNotFound"
    ELSE LET session == sessions[session_id]
             journal_commitment == extract_commitment(journal_bytes)
             decoded == decode_journal(journal_bytes)
         IN  IF session.gardener \notin auth THEN AuthFailed
             ELSE IF ~RevealPhaseOk(session) THEN "InvalidPhase"
             ELSE IF journal_commitment = <<>> THEN "CommitmentMismatch"
             ELSE IF journal_commitment[1] # session.garden_commitment
                  THEN "CommitmentMismatch"
             ELSE IF ~ProofAccepted(journal_bytes, journal_hash, seal)
                  THEN "ProofVerificationFailed"
             ELSE IF decoded = <<>> THEN "ProofVerificationFailed"
             ELSE IF decoded[1].x # session.creature_x \/ decoded[1].y # session.creature_y
                  THEN "InvalidCoordinates"
             ELSE IF decoded[1].has_plant
                     /\ (decoded[1].plant_type < 1 \/ decoded[1].plant_type > 3)
                  THEN "ProofVerificationFailed"
             ELSE "Ok"

\* faulty variant: the revealed cell is put at the head of the list
RevealEffect_CellPrepended(session, result) ==
    LET cell_index == result.y * GRID_SIZE + result.x
        marked == [session EXCEPT !.revealed_cells = <<cell_index>> \o @]
        damaged == ApplyDamage(marked, result)
        win == WinCheck(damaged.session)
    IN  [session |-> [damaged.session EXCEPT !.phase = win.phase],
         result |-> damaged.result,
         game_ended |-> win.game_ended,
         gardener_won |-> win.gardener_won]

\* the session stored and the result returned by an accepted reveal
RevealEffect(session, result) ==
    LET cell_index == result.y * GRID_SIZE + result.x
        marked == [session EXCEPT !.revealed_cells = Append(@, cell_index)]
        damaged == ApplyDamage(marked, result)
        win == WinCheck(damaged.session)
    IN  [session |-> [damaged.session EXCEPT !.phase = win.phase],
         result |-> damaged.result,
         game_ended |-> win.game_ended,
         gardener_won |-> win.gardener_won]

\* faulty variant: when the plant type is refused, the session with the cell
\* already marked as revealed is stored all the same
reveal_cell_MarkStored(session_id, journal_bytes, journal_hash, seal, auth) ==
    LET err == RevealError(session_id, journal_bytes, journal_hash, seal, auth)
        decoded == decode_journal(journal_bytes)
    IN  IF err = "Ok"
        THEN LET eff == RevealEffect(sessions[session_id], decoded[1])
             IN  /\ sessions' = [sessions EXCEPT ![session_id] = eff.session]
                 /\ hub' = IF eff.game_ended
                           THEN [hub EXCEPT ![session_id] =
                                    Append(@, [call |-> "end_game",
                                               player1_won |-> eff.gardener_won])]
                           ELSE hub
                 /\ last' = Outcome("reveal_cell", session_id, <<>>, auth, "Ok", <<eff.result>>)
        ELSE /\ last' = Outcome("reveal_cell", session_id, <<>>, auth, err, NoResult)
             /\ sessions' = IF /\ err = "ProofVerificationFailed"
                               /\ ProofAccepted(journal_bytes, journal_hash, seal)
                               /\ decoded # <<>>
                            THEN [sessions EXCEPT ![session_id].revealed_cells =
                                     Append(@, decoded[1].y * GRID_SIZE + decoded[1].x)]
                            ELSE sessions
             /\ UNCHANGED hub

reveal_cell(session_id, journal_bytes, journal_hash, seal, auth) ==
    LET err == RevealError(session_id, journal_bytes, journal_hash, seal, auth)
    IN  IF err = "Ok"
        THEN LET eff == RevealEffect(sessions[session_id], decode_journal(journal_bytes)[1])
             IN  /\ sessions' = [sessions EXCEPT ![session_id] = eff.session]
                 /\ hub' = IF eff.game_ended
                           THEN [hub EXCEPT ![session_id] =
                                    Append(@, [call |-> "end_game",
                                               player1_won |-> eff.gardener_won])]
                           ELSE hub
                 /\ last' = Outcome("reveal_cell", session_id, <<>>, auth, "Ok", <<eff.result>>)
        ELSE /\ last' = Outcome("reveal_cell", session_id, <<>>, auth, err, NoResult)
             /\ UNCHANGED <<sessions, hub>>

----------------------------------------------------------------------------
(* The journal producer: CellRevealOutput::to_bytes                        *)

\* u32::to_le_bytes
LeBytes32(n) == << n % 256, (n \div 256) % 256, (n \div 65536) % 256, (n \div 16777216) % 256 >>

\* faulty variant: the plant type is written before the has_plant flag
to_bytes_TypeBeforeFlag(out) ==
    out.garden_commitment
    \o << out.x, out.y, out.plant_type, IF out.has_plant THEN 1 ELSE 0, out.damage >>
    \o LeBytes32(out.session_id)
    \o out.gardener_pubkey

to_bytes(out) ==
    out.garden_commitment
    \o << out.x, out.y, IF out.has_plant THEN 1 ELSE 0, out.plant_type, out.damage >>
    \o LeBytes32(out.session_id)
    \o out.gardener_pubkey

\* faulty variant: the session id is read as a big-endian number
from_bytes_BigEndian(bytes) ==
    IF Len(bytes) # JOURNAL_LEN THEN <<>>
    ELSE << [garden_commitment |-> SubSeq(bytes, 1, 32),
             x |-> bytes[33],
             y |-> bytes[34],
             has_plant |-> bytes[35] # 0,
             plant_type |-> bytes[36],
             damage |-> bytes[37],
             session_id |-> bytes[41] + 256 * bytes[40] + 65536 * bytes[39]
                            + 16777216 * bytes[38],
             gardener_pubkey |-> SubSeq(bytes, 42, 73)] >>

\* CellRevealOutput::from_bytes; None is modelled as <<>>, Some(v) as <<v>>
from_bytes(bytes) ==
    IF Len(bytes) # JOURNAL_LEN THEN <<>>
    ELSE << [garden_commitment |-> SubSeq(bytes, 1, 32),
             x |-> bytes[33],
             y |-> bytes[34],
             has_plant |-> bytes[35] # 0,
             plant_type |-> bytes[36],
             damage |-> bytes[37],
             session_id |-> bytes[38] + 256 * bytes[39] + 65536 * bytes[40]
                            + 16777216 * bytes[41],
             gardener_pubkey |-> SubSeq(bytes, 42, 73)] >>

----------------------------------------------------------------------------
(* Inputs                                                                  *)

\* no game is stored under another session id
OnlyGame(session_id) == \A s \in SessionIds \ {session_id} : ~HasSession(s)

\* who may have authorized an invocation
Auths == SUBSET Addrs

\* new_x, new_y are u32: a value far outside the grid (the largest integer
\* TLC represents)
HugeCoord == 2147483647

MoveCoords == (0..MaxCoord) \cup {HugeCoord}

PubKey == Bytes32(7, 7)

Content(has_plant, plant_type, damage) ==
    [has_plant |-> has_plant, plant_type |-> plant_type, damage |-> damage]

\* the (has_plant, plant_type, damage) bytes a submitted journal carries: the
\* four cell values with the producer's damage byte, an empty cell with stray
\* type and damage bytes, a hazard with a stray damage byte, and the
\* unrecognized types 0 and MaxPlantByte flagged as hazards
CellContents ==
    { Content(FALSE, 0, 0), Content(TRUE, 1, 1), Content(TRUE, 2, 2), Content(TRUE, 3, 1),
      Content(FALSE, 3, 9), Content(TRUE, 3, 9),
      Content(TRUE, 0, 0), Content(TRUE, MaxPlantByte, 0) }

\* a well-formed journal for the cell (x, y) of a session
Journal(session_id, commitment, x, y, content) ==
    to_bytes([garden_commitment |-> commitment, x |-> x, y |-> y,
              has_plant |-> content.has_plant, plant_type |-> content.plant_type,
              damage |-> content.damage, session_id |-> session_id,
              gardener_pubkey |-> PubKey])

\* an unrelated digest
WrongHash == Sha256(<<>>)

\* the empty seal (development mode) and a non-empty one
Seals == {<<>>, <<1, 2, 3>>}

\* the non-empty seal: three bytes, which are no Groth16 proof (a proof is
\* three curve points) and which no verifier accepts for any journal
NotAProof == <<1, 2, 3>>

\* journal lengths submitted: one byte short of a commitment, and the full journal
JournalLens == {COMMITMENT_LEN - 1, JOURNAL_LEN}

----------------------------------------------------------------------------
(* Specification Spec: one game played through.  A game is started only    *)
(* while no other game is stored; every call is authorized by both players *)
(* unless it belongs to the Unauthorized family.                           *)

Init ==
    /\ sessions = [s \in SessionIds |-> NoSession]
    /\ hub = [s \in SessionIds |-> <<>>]
    /\ last = Outcome("__constructor", 0, <<>>, {}, "Ok", NoResult)

\* start_game by alice (gardener) against bob, or against herself
Start ==
    \E session_id \in SessionIds, creature \in Addrs :
        /\ OnlyGame(session_id) \/ StartError(session_id, "alice", creature, Addrs) # "Ok"
        /\ start_game(session_id, "alice", creature, 100, 100, Addrs)

Commit ==
    \E session_id \in SessionIds, garden_commitment \in Commitments :
        /\ HasSession(session_id)
        /\ commit_garden(session_id, garden_commitment, Addrs)

\* in this specification the creature walks down column 2
Move ==
    \E session_id \in SessionIds, new_x \in {2, HugeCoord}, new_y \in 0..MaxCoord :
        /\ HasSession(session_id)
        /\ creature_move(session_id, new_x, new_y, Addrs)

\* the gardener reveals the cell the creature stands on, with any content bytes
Reveal ==
    \E session_id \in SessionIds, content \in CellContents :
        /\ HasSession(session_id)
        /\ LET session == sessions[session_id]
               journal == Journal(session_id, session.garden_commitment,
                                  session.creature_x, session.creature_y, content)
           IN  reveal_cell(session_id, journal, Sha256(journal), <<>>, Addrs)

\* a journal for the right cell that is cut short or carries any commitment,
\* with a right or wrong digest and with or without a seal
BadReveal ==
    \E session_id \in SessionIds, commitment \in Commitments, len \in JournalLens,
       hash_ok \in BOOLEAN, seal \in Seals :
        /\ HasSession(session_id)
        /\ LET session == sessions[session_id]
               journal == SubSeq(Journal(session_id, commitment, session.creature_x,
                                         session.creature_y, Content(FALSE, 0, 0)), 1, len)
           IN  reveal_cell(session_id, journal,
                           IF hash_ok THEN Sha256(journal) ELSE WrongHash, seal, Addrs)

\* a journal the gate accepts when the session waits for a proof
GoodJournal(session_id) ==
    Journal(session_id, sessions[session_id].garden_commitment,
            sessions[session_id].creature_x, sessions[session_id].creature_y,
            Content(TRUE, 3, 1))

\* calls authorized by everyone except a party whose authorization is required
Unauthorized ==
    \E session_id \in SessionIds :
        \/ \E signer \in Addrs : start_game(session_id, "alice", "bob", 100, 100, {signer})
        \/ /\ HasSession(session_id)
           /\ LET session == sessions[session_id]
              IN  \/ commit_garden(session_id, Bytes32(0, 1), Addrs \ {session.gardener})
                  \/ creature_move(session_id, 2, session.creature_y + 1,
                                   Addrs \ {session.creature})
                  \/ reveal_cell(session_id, GoodJournal(session_id),
                                 Sha256(GoodJournal(session_id)), <<>>,
                                 Addrs \ {session.gardener})

\* commit, move and reveal on a session id that was never started
UnknownSession ==
    \E session_id \in SessionIds :
        /\ ~HasSession(session_id)
        /\ \/ commit_garden(session_id, Bytes32(0, 1), Addrs)
           \/ creature_move(session_id, 2, 1, Addrs)
           \/ LET journal == Journal(session_id, ZeroCommitment, 2, 1, Content(FALSE, 0, 0))
              IN  reveal_cell(session_id, journal, Sha256(journal), <<>>, Addrs)

Next == Start \/ Commit \/ Move \/ Reveal \/ BadReveal \/ Unauthorized \/ UnknownSession

Spec == Init /\ [][Next]_vars

----------------------------------------------------------------------------
(* Specification SpecMoves: every move proposal at every position, on a    *)
(* game whose cells are empty or hold a Mandrake.                          *)

MovesStart ==
    \E session_id \in SessionIds :
        /\ OnlyGame(session_id)
        /\ start_game(session_id, "alice", "bob", 100, 100, Addrs)

MovesCommit ==
    \E session_id \in SessionIds :
        /\ HasSession(session_id)
        /\ commit_garden(session_id, Bytes32(0, 1), Addrs)

MovesMove ==
    \E session_id \in SessionIds, new_x \in MoveCoords, new_y \in MoveCoords :
        /\ HasSession(session_id)
        /\ creature_move(session_id, new_x, new_y, Addrs)

\* a legal step straight ahead that the creature did not authorize
MovesUnauthorized ==
    \E session_id \in SessionIds :
        /\ HasSession(session_id)
        /\ creature_move(session_id, sessions[session_id].creature_x,
                         sessions[session_id].creature_y + 1,
                         Addrs \ {sessions[session_id].creature})

MovesReveal ==
    \E session_id \in SessionIds, content \in {Content(FALSE, 0, 0), Content(TRUE, 3, 1)} :
        /\ HasSession(session_id)
        /\ LET session == sessions[session_id]
               journal == Journal(session_id, session.garden_commitment,
                                  session.creature_x, session.creature_y, content)
           IN  reveal_cell(session_id, journal, Sha256(journal), <<>>, Addrs)

NextMoves == MovesStart \/ MovesCommit \/ MovesMove \/ MovesUnauthorized \/ MovesReveal

SpecMoves == Init /\ [][NextMoves]_vars

----------------------------------------------------------------------------
(* Specification SpecAuth: every choice of players, stakes and authorizers *)
(* at start and every set of authorizers on the later calls, on a game     *)
(* walked down column 2 over Mandrakes.                                    *)

AuthStart ==
    \E session_id \in SessionIds, gardener \in Addrs, creature \in Addrs,
       stake \in Stakes, auth \in Auths :
        /\ OnlyGame(session_id) \/ StartError(session_id, gardener, creature, auth) # "Ok"
        /\ start_game(session_id, gardener, creature, stake[1], stake[2], auth)

AuthCommit ==
    \E session_id \in SessionIds, auth \in Auths :
        /\ HasSession(session_id)
        /\ commit_garden(session_id, Bytes32(0, 1), auth)

AuthMove ==
    \E session_id \in SessionIds, auth \in Auths :
        /\ HasSession(session_id)
        /\ creature_move(session_id, 2, sessions[session_id].creature_y + 1, auth)

AuthReveal ==
    \E session_id \in SessionIds, auth \in Auths :
        /\ HasSession(session_id)
        /\ reveal_cell(session_id, GoodJournal(session_id),
                       Sha256(GoodJournal(session_id)), <<>>, auth)

NextAuth == AuthStart \/ AuthCommit \/ AuthMove \/ AuthReveal

SpecAuth == Init /\ [][NextAuth]_vars

----------------------------------------------------------------------------
(* Specifications of the proof gate: one game walked down column 2 by      *)
(* fully authorized calls, where the reveals of a specification vary one   *)
(* part of the submission and are honest in the rest.                      *)

GateStart ==
    \E session_id \in SessionIds :
        /\ OnlyGame(session_id)
        /\ start_game(session_id, "alice", "bob", 100, 100, Addrs)

GateCommit ==
    \E session_id \in SessionIds :
        /\ HasSession(session_id)
        /\ commit_garden(session_id, Bytes32(0, 1), Addrs)

GateMove ==
    \E session_id \in SessionIds :
        /\ HasSession(session_id)
        /\ creature_move(session_id, 2, sessions[session_id].creature_y + 1, Addrs)

\* what the cells of the garden hold in these specifications
GateContents == {Content(FALSE, 0, 0), Content(TRUE, 3, 1)}

\* the journal of the cell the creature stands on
CellJournal(session_id, content) ==
    Journal(session_id, sessions[session_id].garden_commitment,
            sessions[session_id].creature_x, sessions[session_id].creature_y, content)

\* SpecHash: development-mode reveals (empty seal) of the right journal with
\* its own digest or with an unrelated one
HashReveal ==
    \E session_id \in SessionIds, content \in GateContents, hash_ok \in BOOLEAN :
        /\ HasSession(session_id)
        /\ LET journal == CellJournal(session_id, content)
           IN  reveal_cell(session_id, journal,
                           IF hash_ok THEN Sha256(journal) ELSE WrongHash, <<>>, Addrs)

NextHash == GateStart \/ GateCommit \/ GateMove \/ HashReveal

SpecHash == Init /\ [][NextHash]_vars

\* SpecSeal: production-mode reveals only: the right journal, with its own
\* digest or with an unrelated one, always under the seal NotAProof
SealReveal ==
    \E session_id \in SessionIds, content \in GateContents, hash_ok \in BOOLEAN :
        /\ HasSession(session_id)
        /\ LET journal == CellJournal(session_id, content)
           IN  reveal_cell(session_id, journal,
                           IF hash_ok THEN Sha256(journal) ELSE WrongHash, NotAProof, Addrs)

NextSeal == GateStart \/ GateCommit \/ GateMove \/ SealReveal

SpecSeal == Init /\ [][NextSeal]_vars

\* the first len bytes of a journal, followed by zero bytes when len is larger
Resized(journal, len) ==
    [i \in 1..len |-> IF i <= Len(journal) THEN journal[i] ELSE 0]

\* journal lengths: one byte short of a commitment, the commitment alone,
\* the fields the contract reads, one byte short, exact, and too long
GateLens ==
    {COMMITMENT_LEN - 1, COMMITMENT_LEN, COMMITMENT_LEN + 5}
        \cup ((JOURNAL_LEN - 1)..MaxJournalLen)

\* SpecLength: development-mode reveals of the right journal cut or extended
\* to each length, with the digest of the bytes submitted
LengthReveal ==
    \E session_id \in SessionIds, content \in GateContents, len \in GateLens :
        /\ HasSession(session_id)
        /\ LET journal == Resized(CellJournal(session_id, content), len)
           IN  reveal_cell(session_id, journal, Sha256(journal), <<>>, Addrs)

NextLength == GateStart \/ GateCommit \/ GateMove \/ LengthReveal

SpecLength == Init /\ [][NextLength]_vars

\* SpecCoords: development-mode reveals of a journal for any cell (x, y)
\* with x, y in 0..MaxCoord, with the stored commitment and its own digest
CoordReveal ==
    \E session_id \in SessionIds, x \in 0..MaxCoord, y \in 0..MaxCoord,
       content \in GateContents :
        /\ HasSession(session_id)
        /\ LET journal == Journal(session_id, sessions[session_id].garden_commitment,
                                  x, y, content)
           IN  reveal_cell(session_id, journal, Sha256(journal), <<>>, Addrs)

NextCoords == GateStart \/ GateCommit \/ GateMove \/ CoordReveal

SpecCoords == Init /\ [][NextCoords]_vars

\* SpecType: development-mode reveals of the journal of the creature's cell
\* with each of CellContents in its has_plant, plant_type and damage bytes
TypeReveal ==
    \E session_id \in SessionIds, content \in CellContents :
        /\ HasSession(session_id)
        /\ LET journal == CellJournal(session_id, content)
           IN  reveal_cell(session_id, journal, Sha256(journal), <<>>, Addrs)

NextType == GateStart \/ GateCommit \/ GateMove \/ TypeReveal

SpecType == Init /\ [][NextType]_vars

\* the public key of a player, as the prover embeds it in a journal
KeyOf(addr) == IF addr = "alice" THEN PubKey ELSE Bytes32(7, 8)

\* the journal the prover makes for a session and a key
KeyedJournal(gardener_pubkey, session_id, commitment, x, y, content) ==
    to_bytes([garden_commitment |-> commitment, x |-> x, y |-> y,
              has_plant |-> content.has_plant, plant_type |-> content.plant_type,
              damage |-> content.damage, session_id |-> session_id,
              gardener_pubkey |-> gardener_pubkey])

\* SpecReplay: every reveal submits, with its own digest, a journal made for
\* ANOTHER session id under the same commitment and for the same cell, with
\* the key of either player
ReplayReveal ==
    \E session_id \in SessionIds, content \in GateContents, signer \in Addrs :
        \E made_for \in SessionIds \ {session_id} :
            /\ HasSession(session_id)
            /\ LET session == sessions[session_id]
                   journal == KeyedJournal(KeyOf(signer), made_for, session.garden_commitment,
                                           session.creature_x, session.creature_y, content)
               IN  reveal_cell(session_id, journal, Sha256(journal), <<>>, Addrs)

NextReplay == GateStart \/ GateCommit \/ GateMove \/ ReplayReveal

SpecReplay == Init /\ [][NextReplay]_vars

----------------------------------------------------------------------------
(* Specification SpecCodec: the journal codec of the prover.  A journal    *)
(* value is encoded, then the bytes, cut or extended to some length, are   *)
(* decoded; `last` holds the application and its result.                   *)

\* byte values of the u8 fields: the least, a small one, the plant types'
\* upper end, and the greatest
CodecBytes == {0, 1, 3, 255}

\* the values encoded; the u32 session ids have one byte, two bytes, four
\* different bytes, and the top byte set
CodecValues ==
    [garden_commitment : Commitments, x : CodecBytes, y : {0, 255},
     has_plant : BOOLEAN, plant_type : CodecBytes, damage : {0, 255},
     session_id : {0, 4, 258, 16909060, 2130706432}, gardener_pubkey : {KeyOf(a) : a \in Addrs}]

\* let bytes = v.to_bytes()
CodecEncode ==
    \E v \in CodecValues :
        /\ last.op = "__constructor"
        /\ last' = Outcome("to_bytes", 0, <<v>>, {}, "Ok", <<to_bytes(v)>>)
        /\ UNCHANGED <<sessions, hub>>

\* CellRevealOutput::from_bytes on those bytes cut or extended to a length;
\* the value encoded and the buffer decoded are kept as arguments
CodecDecode ==
    \E len \in GateLens :
        /\ last.op = "to_bytes"
        /\ LET buffer == Resized(last.result[1], len)
           IN  last' = Outcome("from_bytes", 0, <<last.args[1], buffer>>, {},
                               IF from_bytes(buffer) = <<>> THEN "None" ELSE "Ok",
                               from_bytes(buffer))
        /\ UNCHANGED <<sessions, hub>>

NextCodec == CodecEncode \/ CodecDecode

SpecCodec == Init /\ [][NextCodec]_vars

----------------------------------------------------------------------------
(* The garden layout of the prover: GardenLayout::validate                 *)

\* PlantType::from_u8; None is modelled as <<>>
from_u8(value) ==
    CASE value = 0 -> <<"Empty">>
      [] value = 1 -> <<"Lavender">>
      [] value = 2 -> <<"Mint">>
      [] value = 3 -> <<"Mandrake">>
      [] OTHER -> <<>>

RECURSIVE ValidateFrom_HouseRowPlanted(_, _, _)
\* faulty variant: plants are admitted in the house row
ValidateFrom_HouseRowPlanted(cells, i, plant_count) ==
    IF i > GRID_CELLS
    THEN IF plant_count > MAX_PLANTS THEN "TooManyPlants" ELSE "Ok"
    ELSE IF from_u8(cells[i]) = <<>> THEN "InvalidPlantType"
    ELSE ValidateFrom_HouseRowPlanted(cells, i + 1,
                                      IF cells[i] # 0 THEN plant_count + 1 ELSE plant_count)

RECURSIVE ValidateFrom_SevenRefused(_, _, _)
\* faulty variant: a layout with exactly MAX_PLANTS plants is refused
ValidateFrom_SevenRefused(cells, i, plant_count) ==
    IF i > GRID_CELLS
    THEN IF plant_count >= MAX_PLANTS THEN "TooManyPlants" ELSE "Ok"
    ELSE IF from_u8(cells[i]) = <<>> THEN "InvalidPlantType"
    ELSE IF cells[i] # 0 /\ (i - 1) \div GRID_SIZE = 4 THEN "PlantInHouseRow"
    ELSE ValidateFrom_SevenRefused(cells, i + 1,
                                   IF cells[i] # 0 THEN plant_count + 1 ELSE plant_count)

RECURSIVE ValidateFrom(_, _, _)
\* the loop of validate from the i-th cell on (cells[1] is the code's
\* cells[0]) with plant_count plants counted so far, and the test after it
ValidateFrom(cells, i, plant_count) ==
    IF i > GRID_CELLS
    THEN IF plant_count > MAX_PLANTS THEN "TooManyPlants" ELSE "Ok"
    ELSE IF from_u8(cells[i]) = <<>> THEN "InvalidPlantType"
    ELSE IF cells[i] # 0 /\ (i - 1) \div GRID_SIZE = 4 THEN "PlantInHouseRow"
    ELSE ValidateFrom(cells, i + 1,
                      IF cells[i] # 0 THEN plant_count + 1 ELSE plant_count)

validate(cells) == ValidateFrom(cells, 1, 0)

\* cell values written into a layout: the four plant types, the first
\* unrecognized value and the greatest byte
LayoutBytes == (0..MaxPlantByte) \cup {255}

\* cells written individually: the first cell, the MAX_PLANTS-th and the one
\* after it, the last cell of row 3, the first and the last cell of row 4
LayoutSpots == {1, MAX_PLANTS, MAX_PLANTS + 1, 20, 21, GRID_CELLS}

\* a layout with plants of one type in its first `planted` cells and two
\* cells written individually
LayoutCells(planted, plant, spot1, byte1, spot2, byte2) ==
    [n \in 1..GRID_CELLS |->
        IF n = spot2 THEN byte2
        ELSE IF n = spot1 THEN byte1
        ELSE IF n <= planted THEN plant ELSE 0]

Layouts ==
    { LayoutCells(planted, plant, spot1, byte1, spot2, byte2) :
        planted \in 0..MaxPlanted, plant \in {1, 3},
        spot1 \in LayoutSpots, byte1 \in LayoutBytes,
        spot2 \in LayoutSpots, byte2 \in LayoutBytes }

\* SpecLayout: garden.validate() on each layout
LayoutValidate ==
    \E cells \in Layouts :
        /\ last.op = "__constructor"
        /\ last' = Outcome("validate", 0, <<cells>>, {}, validate(cells), NoResult)
        /\ UNCHANGED <<sessions, hub>>

NextLayout == LayoutValidate

SpecLayout == Init /\ [][NextLayout]_vars

----------------------------------------------------------------------------
(* The garden commitment of the prover: compute_garden_commitment          *)

\* the salt left out of the bytes that are hashed
GardenLayout_to_bytes_CellsOnly(garden) == garden.cells

\* GardenLayout::to_bytes: the cells, then the salt
GardenLayout_to_bytes(garden) == garden.cells \o garden.salt

\* sha256 of garden.to_bytes()
compute_garden_commitment(garden) == Sha256(GardenLayout_to_bytes(garden))

\* cells: [u8; GRID_CELLS], all empty but one
OneCell(spot, byte) == [n \in 1..GRID_CELLS |-> IF n = spot THEN byte ELSE 0]

\* salt: [u8; SALT_LEN], all zero but one byte
OneSalt(spot, byte) == [n \in 1..SALT_LEN |-> IF n = spot THEN byte ELSE 0]

\* layouts that differ in the first, a middle or the last cell, or in the
\* first or the last salt byte, by a small or a large value
Gardens ==
    [cells : {OneCell(1, 0), OneCell(1, 1), OneCell(1, 3), OneCell(13, 1), OneCell(GRID_CELLS, 1)},
     salt : {OneSalt(1, 0), OneSalt(1, 1), OneSalt(1, 255), OneSalt(SALT_LEN, 1)}]

\* SpecCommitment: the commitment of one layout, then of a second one
\* (possibly the same) next to it
CommitFirst ==
    \E garden \in Gardens :
        /\ last.op = "__constructor"
        /\ last' = Outcome("compute_garden_commitment", 0, <<garden>>, {}, "Ok",
                           <<compute_garden_commitment(garden)>>)
        /\ UNCHANGED <<sessions, hub>>

CommitSecond ==
    \E garden \in Gardens :
        /\ last.op = "compute_garden_commitment"
        /\ Len(last.args) = 1
        /\ last' = Outcome("compute_garden_commitment", 0, Append(last.args, garden), {}, "Ok",
                           Append(last.result, compute_garden_commitment(garden)))
        /\ UNCHANGED <<sessions, hub>>

NextCommitment == CommitFirst \/ CommitSecond

SpecCommitment == Init /\ [][NextCommitment]_vars

----------------------------------------------------------------------------
(* Specification SpecMoon: the moon phase of a session.  Games are started *)
(* with every choice of players, stakes and authorizers, and               *)
(* determine_moon_phase is applied to session ids whose hash byte lies at  *)
(* the ends of each range.                                                 *)

\* session ids with keccak256(be32(id))[0] in {0, 19, 20, 39, 40, 99} modulo 100
MoonSessionIds ==
    {34, 46, 57, 69, 82, 90, 118, 119, 156, 201, 222, 225, 241, 274, 335, 578, 582, 908}

MoonStart ==
    \E session_id \in SessionIds, gardener \in Addrs, creature \in Addrs,
       stake \in Stakes, auth \in Auths :
        /\ last.op # "determine_moon_phase"
        /\ start_game(session_id, gardener, creature, stake[1], stake[2], auth)

MoonPhaseOf ==
    \E session_id \in MoonSessionIds \cup SessionIds :
        /\ last.op = "__constructor"
        /\ last' = Outcome("determine_moon_phase", session_id, <<session_id>>, {}, "Ok",
                           <<determine_moon_phase(session_id)>>)
        /\ UNCHANGED <<sessions, hub>>

NextMoon == MoonStart \/ MoonPhaseOf

SpecMoon == Init /\ [][NextMoon]_vars

----------------------------------------------------------------------------
(* Specification SpecOrder: the order of the checks of reveal_cell.  One   *)
(* game is walked down column 2; a reveal is honest or fails several       *)
(* checks at once: the first check it fails and the one after it, and any  *)
(* of the later ones.  Reveals are also made on sessions never started and *)
(* in every phase.                                                         *)

\* the parts of a submission a reveal can get wrong, in the order of the checks
FaultOrder == <<"commitment", "hash", "length", "coordinates", "type">>

\* no fault, or the first fault together with the next one in the order
FaultSets ==
    { faults \in SUBSET {FaultOrder[k] : k \in 1..5} :
        \A k \in 1..4 :
            (FaultOrder[k] \in faults /\ \A j \in 1..(k - 1) : FaultOrder[j] \notin faults)
                => FaultOrder[k + 1] \in faults }

\* the journal a reveal with these faults submits for a session: the other
\* commitment, one byte too long, the cell to the right of the creature's, a
\* hazard of the unrecognized type MaxPlantByte
FaultyJournal(session_id, faults) ==
    LET stored == HasSession(session_id)
        committed == IF stored THEN sessions[session_id].garden_commitment ELSE ZeroCommitment
        commitment == IF "commitment" \notin faults THEN committed
                      ELSE IF committed = Bytes32(0, 1) THEN Bytes32(0, 0) ELSE Bytes32(0, 1)
        cx == IF stored THEN sessions[session_id].creature_x ELSE 2
        cy == IF stored THEN sessions[session_id].creature_y ELSE 0
        x == IF "coordinates" \in faults THEN cx + 1 ELSE cx
        content == IF "type" \in faults THEN Content(TRUE, MaxPlantByte, 0)
                   ELSE Content(TRUE, 2, 2)
        journal == Journal(session_id, commitment, x, cy, content)
    IN  IF "length" \in faults THEN Resized(journal, JOURNAL_LEN + 1) ELSE journal

\* the digest submitted with it
FaultyHash(session_id, faults) ==
    IF "hash" \in faults THEN WrongHash ELSE Sha256(FaultyJournal(session_id, faults))

OrderReveal ==
    \E session_id \in SessionIds, faults \in FaultSets :
        reveal_cell(session_id, FaultyJournal(session_id, faults),
                    FaultyHash(session_id, faults), <<>>, Addrs)

NextOrder == GateStart \/ GateCommit \/ GateMove \/ OrderReveal

SpecOrder == Init /\ [][NextOrder]_vars

----------------------------------------------------------------------------
(* Specification SpecJournal: the prover's encoding read by the contract.  *)
(* A journal value is encoded with CellRevealOutput::to_bytes, then the    *)
(* contract's extract_commitment and decode_journal are applied to the     *)
(* bytes.                                                                  *)

ContractDecode ==
    /\ last.op = "to_bytes"
    /\ LET journal == last.result[1]
       IN  last' = Outcome("decode_journal", 0, <<last.args[1], journal>>, {}, "Ok",
                           <<extract_commitment(journal), decode_journal(journal)>>)
    /\ UNCHANGED <<sessions, hub>>

NextJournal == CodecEncode \/ ContractDecode

SpecJournal == Init /\ [][NextJournal]_vars

----------------------------------------------------------------------------
(* The guest circuit of the prover (zk-prover/methods/guest/src/main.rs)   *)

\* `plant as u8`
PlantByte(plant) ==
    CASE plant = <<"Empty">> -> 0
      [] plant = <<"Lavender">> -> 1
      [] plant = <<"Mint">> -> 2
      [] plant = <<"Mandrake">> -> 3

\* PlantType::damage
PlantType_damage(plant) ==
    CASE plant = <<"Empty">> -> 0
      [] plant = <<"Lavender">> -> 1
      [] plant = <<"Mint">> -> 2
      [] plant = <<"Mandrake">> -> 1

\* PlantType::is_plant
is_plant(plant) == plant # <<"Empty">>

\* faulty variant: the cell is looked up column by column
get_cell_Transposed(cells, x, y) ==
    IF x >= GRID_SIZE \/ y >= GRID_SIZE THEN <<"Empty">>
    ELSE LET index == x * GRID_SIZE + y
             plant == from_u8(cells[index + 1])
         IN  IF plant = <<>> THEN <<"Empty">> ELSE plant

\* GardenLayout::get_cell
get_cell(cells, x, y) ==
    IF x >= GRID_SIZE \/ y >= GRID_SIZE THEN <<"Empty">>
    ELSE LET index == y * GRID_SIZE + x
             plant == from_u8(cells[index + 1])
         IN  IF plant = <<>> THEN <<"Empty">> ELSE plant

\* the 32 bytes of a digest: byte i of an ideal hash value is a value of its
\* own, equal to no byte of another digest
DigestBytes(digest) == [i \in 1..COMMITMENT_LEN |-> <<digest, i>>]

\* main: None (<<>>) when the guest panics, else the bytes it commits
guest_main(input) ==
    IF input.x >= GRID_SIZE \/ input.y >= GRID_SIZE THEN <<>>
    ELSE IF validate(input.garden.cells) # "Ok" THEN <<>>
    ELSE LET computed_commitment == DigestBytes(compute_garden_commitment(input.garden))
         IN  IF computed_commitment # input.expected_commitment THEN <<>>
             ELSE LET plant == get_cell(input.garden.cells, input.x, input.y)
                      has_plant == is_plant(plant)
                      damage == PlantType_damage(plant)
                  IN  << to_bytes([garden_commitment |-> computed_commitment,
                                   x |-> input.x,
                                   y |-> input.y,
                                   has_plant |-> has_plant,
                                   plant_type |-> PlantByte(plant),
                                   damage |-> damage,
                                   session_id |-> input.session_id,
                                   gardener_pubkey |-> input.gardener_pubkey]) >>

\* a layout that validate accepts: Lavender at (0,0) and (2,3), Mint at
\* (2,0), Mandrake at (4,3)
PlantedCells ==
    [n \in 1..GRID_CELLS |->
        CASE n = 1 -> 1 [] n = 3 -> 2 [] n = 18 -> 1 [] n = 20 -> 3 [] OTHER -> 0]

\* layouts given to the prover: the planted one, MAX_PLANTS Mandrakes, and
\* three that validate refuses (one plant too many, a Mint in the house row,
\* an unrecognized value)
ProverGardens ==
    [cells : { PlantedCells,
               LayoutCells(MAX_PLANTS, 3, 1, 3, 1, 3),
               LayoutCells(MAX_PLANTS + 1, 1, 1, 1, 1, 1),
               OneCell(21, 2),
               OneCell(1, MaxPlantByte) },
     salt : {OneSalt(1, 0), OneSalt(SALT_LEN, 1)}]

\* x, y: u8, inside the grid, just outside and far outside
ProverXs == {0, 2, 4, MaxCoord, 255}

ProverYs == {0, 3, 4, MaxCoord}

ProverSessionIds == {1, 16909060}

\* SpecGuest: the circuit run on each input; the expected commitment is
\* that of the layout given or of another one
GuestRun ==
    \E input \in
        { [garden |-> garden, x |-> x, y |-> y,
           expected_commitment |-> DigestBytes(compute_garden_commitment(committed)),
           session_id |-> session_id, gardener_pubkey |-> KeyOf(gardener)] :
            garden \in ProverGardens, x \in ProverXs, y \in ProverYs,
            committed \in ProverGardens, session_id \in ProverSessionIds, gardener \in Addrs } :
        /\ last.op = "__constructor"
        /\ last' = Outcome("guest_main", 0, <<input>>, {},
                           IF guest_main(input) = <<>> THEN "panic" ELSE "Ok",
                           guest_main(input))
        /\ UNCHANGED <<sessions, hub>>

NextGuest == GuestRun

SpecGuest == Init /\ [][NextGuest]_vars

----------------------------------------------------------------------------
(* The development prover (zk-prover/host/src/lib.rs) next to the circuit  *)

\* the (has_plant, plant_type_u8, damage) triple the development prover
\* writes for a plant
DevCellContent(plant) ==
    CASE plant = <<"Empty">> -> Content(FALSE, 0, 0)
      [] plant = <<"Lavender">> -> Content(TRUE, 1, 1)
      [] plant = <<"Mint">> -> Content(TRUE, 2, 2)
      [] plant = <<"Mandrake">> -> Content(TRUE, 3, 3)

\* generate_cell_reveal_proof_dev: Err (<<>>) or the ProofResult
generate_cell_reveal_proof_dev(garden, x, y, session_id, gardener_pubkey) ==
    IF x >= 5 \/ y >= 5 THEN <<>>
    ELSE IF validate(garden.cells) # "Ok" THEN <<>>
    ELSE LET commitment == DigestBytes(compute_garden_commitment(garden))
             cell_index == y * 5 + x
             cell_value == garden.cells[cell_index + 1]
             plant_type == IF from_u8(cell_value) = <<>> THEN <<"Empty">>
                           ELSE from_u8(cell_value)
             content == DevCellContent(plant_type)
             journal_bytes == to_bytes([garden_commitment |-> commitment,
                                        x |-> x,
                                        y |-> y,
                                        has_plant |-> content.has_plant,
                                        plant_type |-> content.plant_type,
                                        damage |-> content.damage,
                                        session_id |-> session_id,
                                        gardener_pubkey |-> gardener_pubkey])
         IN  IF Len(journal_bytes) # JOURNAL_LEN THEN <<>>
             ELSE << [journal_bytes |-> journal_bytes,
                      journal_hash |-> Sha256(journal_bytes),
                      seal |-> <<>>] >>

\* the input the prover hands to the circuit for the same arguments
\* (generate_cell_reveal_proof, production mode)
CircuitInput(garden, x, y, session_id, gardener_pubkey) ==
    [garden |-> garden, x |-> x, y |-> y,
     expected_commitment |-> DigestBytes(compute_garden_commitment(garden)),
     session_id |-> session_id, gardener_pubkey |-> gardener_pubkey]

\* SpecProver: the development prover and the circuit run on the same
\* arguments; `last` holds the arguments and both results
DevProve ==
    \E garden \in ProverGardens, x \in ProverXs, y \in ProverYs,
       session_id \in ProverSessionIds, gardener \in Addrs :
        /\ last.op = "__constructor"
        /\ LET input == CircuitInput(garden, x, y, session_id, KeyOf(gardener))
               dev == generate_cell_reveal_proof_dev(garden, x, y, session_id, KeyOf(gardener))
           IN  last' = Outcome("generate_cell_reveal_proof_dev", 0, <<input>>, {},
                               IF dev = <<>> THEN "Err" ELSE "Ok",
                               <<dev, guest_main(input)>>)
        /\ UNCHANGED <<sessions, hub>>

NextProver == DevProve

SpecProver == Init /\ [][NextProver]_vars

----------------------------------------------------------------------------
(* Specification SpecSessions: two games side by side.  Sessions 1 and 4   *)
(* are started, committed, moved down column 2 and revealed in any         *)
(* interleaving, and every call is also made where it fails: on a session  *)
(* not started, on one already stored, in the wrong phase.                 *)

PairIds == {1, 4}

\* the journal for the creature's cell, or for (2, 1) under the zero
\* commitment when the session is not stored
SessionJournal(session_id, content) ==
    IF HasSession(session_id) THEN CellJournal(session_id, content)
    ELSE Journal(session_id, ZeroCommitment, 2, 1, content)

SessionsStart ==
    \E session_id \in PairIds :
        start_game(session_id, "alice", "bob", 100, 100, Addrs)

SessionsCommit ==
    \E session_id \in PairIds :
        commit_garden(session_id, Bytes32(0, 1), Addrs)

SessionsMove ==
    \E session_id \in PairIds :
        creature_move(session_id, 2,
                      IF HasSession(session_id) THEN sessions[session_id].creature_y + 1 ELSE 1,
                      Addrs)

SessionsReveal ==
    \E session_id \in PairIds, content \in GateContents :
        LET journal == SessionJournal(session_id, content)
        IN  reveal_cell(session_id, journal, Sha256(journal), <<>>, Addrs)

NextSessions == SessionsStart \/ SessionsCommit \/ SessionsMove \/ SessionsReveal

SpecSessions == Init /\ [][NextSessions]_vars

----------------------------------------------------------------------------
(* Specification SpecFair: the game of SpecType played by parties that do  *)
(* not give up: in phase Playing the creature keeps proposing the step     *)
(* ahead, in phase WaitingForProof the gardener keeps submitting a journal *)
(* that is accepted.  Refused calls can still happen any number of times.  *)

\* the step ahead, proposed while a move is awaited
FairMove(session_id) ==
    /\ HasSession(session_id)
    /\ sessions[session_id].phase = "Playing"
    /\ creature_move(session_id, 2, sessions[session_id].creature_y + 1, Addrs)

\* a reveal that is accepted, submitted while a proof is awaited
FairReveal(session_id) ==
    /\ HasSession(session_id)
    /\ sessions[session_id].phase = "WaitingForProof"
    /\ \E content \in CellContents :
           LET journal == CellJournal(session_id, content)
           IN  /\ reveal_cell(session_id, journal, Sha256(journal), <<>>, Addrs)
               /\ last'.err = "Ok"

NextFair == GateStart \/ GateCommit \/ GateMove \/ TypeReveal

SpecFair ==
    /\ Init
    /\ [][NextFair]_vars
    /\ \A session_id \in SessionIds :
           WF_vars(FairMove(session_id)) /\ WF_vars(FairReveal(session_id))

---------------------------------------------------------------------------------------------------------------------------------------------------
(* Specification SpecRows: one game walked through every column, where a   *)
(* reveal submits the journal of the cell the creature stands on or the    *)
(* journal of a cell revealed before.                                      *)

\* what the cells hold here: nothing or a Lavender
RowsContents == {Content(FALSE, 0, 0), Content(TRUE, 1, 1)}

\* the cells a reveal of the session may be submitted for
RowsCells(session) ==
    {session.creature_y * GRID_SIZE + session.creature_x}
        \cup {session.revealed_cells[k] : k \in 1..Len(session.revealed_cells)}

\* the journal of a cell of the garden of the session
IndexJournal(session_id, cell_index, content) ==
    Journal(session_id, sessions[session_id].garden_commitment,
            cell_index % GRID_SIZE, cell_index \div GRID_SIZE, content)

RowsMove ==
    \E session_id \in SessionIds, new_x \in 0..(GRID_SIZE - 1), same_row \in BOOLEAN :
        /\ HasSession(session_id)
        /\ creature_move(session_id, new_x,
                         sessions[session_id].creature_y + (IF same_row THEN 0 ELSE 1), Addrs)

RowsReveal ==
    \E session_id \in SessionIds, content \in RowsContents :
        /\ HasSession(session_id)
        /\ \E cell_index \in RowsCells(sessions[session_id]) :
              LET journal == IndexJournal(session_id, cell_index, content)
              IN  reveal_cell(session_id, journal, Sha256(journal), <<>>, Addrs)

NextRows == GateStart \/ GateCommit \/ RowsMove \/ RowsReveal

SpecRows == Init /\ [][NextRows]_vars

----------------------------------------------------------------------------
(* Specification SpecTrueLayout: a Full Moon game on a garden that         *)
(* validate accepts, where the gardener commits the digest of the garden   *)
(* and every reveal submits what the circuit commits for the cell the      *)
(* creature stands on.                                                     *)

\* session ids whose moon phase is the Full Moon
FullMoonIds == {session_id \in SessionIds : determine_moon_phase(session_id) = "FullMoon"}

\* a layout with Mandrakes in the first three cells of row 0, one plant in
\* each of the rows 1 to 3, and `house` in row 4 under the plant of row 3
TrueCells(x1, plant1, x2, plant2, x3, plant3, house) ==
    [n \in 1..GRID_CELLS |->
        IF n <= 3 THEN 3
        ELSE IF n = 1 * GRID_SIZE + x1 + 1 THEN plant1
        ELSE IF n = 2 * GRID_SIZE + x2 + 1 THEN plant2
        ELSE IF n = 3 * GRID_SIZE + x3 + 1 THEN plant3
        ELSE IF n = 4 * GRID_SIZE + x3 + 1 THEN house
        ELSE 0]

\* the gardens that satisfy the layout invariants, among those a gardener
\* may try: a Lavender or a Mandrake in each of the rows 1 to 3, the house
\* row empty or holding a Mandrake
TrueGardens ==
    { garden \in
        { [cells |-> TrueCells(x1, plant1, x2, plant2, x3, plant3, house),
           salt |-> OneSalt(1, 0)] :
            x1 \in {0, 2}, x2 \in {1, 2}, x3 \in {2, 3},
            plant1 \in {1, 3}, plant2 \in {1, 3}, plant3 \in {1, 3}, house \in {0, 3} } :
        validate(garden.cells) = "Ok" }

\* the garden behind a committed digest
CommittedGarden(garden_commitment) ==
    CHOOSE garden \in TrueGardens :
        DigestBytes(compute_garden_commitment(garden)) = garden_commitment

TrueStart ==
    \E session_id \in FullMoonIds :
        start_game(session_id, "alice", "bob", 100, 100, Addrs)

TrueCommit ==
    \E session_id \in FullMoonIds, garden \in TrueGardens :
        /\ HasSession(session_id)
        /\ sessions[session_id].phase = "WaitingForCommitment"
        /\ commit_garden(session_id, DigestBytes(compute_garden_commitment(garden)), Addrs)

TrueMove ==
    \E session_id \in FullMoonIds, new_x \in 0..(GRID_SIZE - 1) :
        /\ HasSession(session_id)
        /\ creature_move(session_id, new_x, sessions[session_id].creature_y + 1, Addrs)

\* the reveal of the cell the creature waits on, with the journal of the
\* circuit run on the committed garden
TrueReveal ==
    \E session_id \in FullMoonIds :
        /\ HasSession(session_id)
        /\ sessions[session_id].phase = "WaitingForProof"
        /\ LET session == sessions[session_id]
               garden == CommittedGarden(session.garden_commitment)
               committed == guest_main(CircuitInput(garden, session.creature_x,
                                                    session.creature_y, session_id, PubKey))
           IN  /\ committed # <<>>
               /\ reveal_cell(session_id, committed[1], Sha256(committed[1]), <<>>, Addrs)

NextTrueLayout == TrueStart \/ TrueCommit \/ TrueMove \/ TrueReveal

SpecTrueLayout == Init /\ [][NextTrueLayout]_vars

-----
(* Properties                                                              *)

PhaseOf(session) == IF session = NoSession THEN "None" ELSE session.phase

Called(op, session_id) == last'.op = op /\ last'.session_id = session_id

Succeeded(op, session_id) == Called(op, session_id) /\ last'.err = "Ok"

\* the party whose authorization an entry point requires on a stored session
RequiredParty(op, session) ==
    IF op = "creature_move" THEN session.creature ELSE session.gardener

\* the phase in which an entry point is legal
LegalPhase(op) ==
    CASE op = "commit_garden" -> "WaitingForCommitment"
      [] op = "creature_move" -> "Playing"
      [] op = "reveal_cell" -> "WaitingForProof"

SessionOps == {"commit_garden", "creature_move", "reveal_cell"}

\* C1: a session's phase changes only along None -> WaitingForCommitment (a
\* successful start), WaitingForCommitment -> Playing (a successful commit),
\* Playing -> WaitingForProof (a successful move) and WaitingForProof ->
\* Playing or Finished (an accepted reveal); no other phase change occurs.
C1_PhaseEdges ==
    [][\A s \in SessionIds :
        LET p == PhaseOf(sessions[s])
            q == PhaseOf(sessions'[s])
        IN  p # q =>
              \/ p = "None" /\ q = "WaitingForCommitment" /\ Succeeded("start_game", s)
              \/ p = "WaitingForCommitment" /\ q = "Playing" /\ Succeeded("commit_garden", s)
              \/ p = "Playing" /\ q = "WaitingForProof" /\ Succeeded("creature_move", s)
              \/ p = "WaitingForProof" /\ q \in {"Playing", "Finished"}
                 /\ Succeeded("reveal_cell", s)]_vars

\* a game that went round the Playing/WaitingForProof loop and finished
C1_Witness ==
    \E s \in SessionIds :
        /\ PhaseOf(sessions[s]) = "Finished"
        /\ sessions[s].turn_number >= 2
        /\ last.op = "reveal_cell" /\ last.session_id = s /\ last.err = "Ok"

\* C2: on a stored session commit succeeds only in WaitingForCommitment, move
\* only in Playing, reveal only in WaitingForProof, and a call admitted by the
\* authorization check in any other phase fails with InvalidPhase; on an
\* unknown session id each of them fails with SessionNotFound and stores
\* nothing.
C2_PhaseGate ==
    [][\A s \in SessionIds, op \in SessionOps :
        Called(op, s) =>
            IF sessions[s] = NoSession
            THEN last'.err = "SessionNotFound" /\ sessions' = sessions
            ELSE /\ last'.err = "Ok" => sessions[s].phase = LegalPhase(op)
                 /\ (RequiredParty(op, sessions[s]) \in last'.auth
                     /\ sessions[s].phase # LegalPhase(op))
                    => last'.err = "InvalidPhase"]_vars

\* an authorized reveal while the session is in Playing, refused for its phase
C2_Witness ==
    \E s \in SessionIds :
        /\ PhaseOf(sessions[s]) = "Playing"
        /\ last.op = "reveal_cell" /\ last.session_id = s
        /\ sessions[s].gardener \in last.auth
        /\ last.err = "InvalidPhase"

\* C3: once a session is Finished, every later commit, move and reveal on it
\* fails and its stored record never changes again.
C3_FinishedIsFinal ==
    [][\A s \in SessionIds :
        PhaseOf(sessions[s]) = "Finished" =>
            /\ sessions'[s] = sessions[s]
            /\ \A op \in SessionOps : Called(op, s) => last'.err # "Ok"]_vars

\* a move by the creature, with a legal target, refused on a finished game
C3_Witness ==
    \E s \in SessionIds :
        /\ PhaseOf(sessions[s]) = "Finished"
        /\ sessions[s].creature_hp = 0 /\ sessions[s].creature_y < 4
        /\ last.op = "creature_move" /\ last.session_id = s
        /\ sessions[s].creature \in last.auth
        /\ last.err = "InvalidPhase"

\* C4 as stated: start on a session id that has a record fails with
\* AlreadyInitialized whatever players and stakes are passed, calls no hub and
\* leaves the record as it was.
C4_RestartAlreadyInitialized ==
    [][\A s \in SessionIds :
        (HasSession(s) /\ Called("start_game", s)) =>
            /\ last'.err = "AlreadyInitialized"
            /\ UNCHANGED <<sessions, hub>>]_vars

\* C4 amended: start on a session id that has a record, in any phase, always
\* fails, calls no hub and leaves the record as it was; the error is
\* AlreadyInitialized when the two players passed are distinct and
\* SelfPlayNotAllowed when they are the same address.
C4_RestartRejected ==
    [][\A s \in SessionIds :
        (HasSession(s) /\ Called("start_game", s)) =>
            /\ last'.err = IF last'.args[1] = last'.args[2] THEN "SelfPlayNotAllowed"
                           ELSE "AlreadyInitialized"
            /\ UNCHANGED <<sessions, hub>>]_vars

\* a fully authorized start with swapped players and other stakes, refused on
\* the id of a finished game
C4_Witness ==
    \E s \in SessionIds :
        /\ PhaseOf(sessions[s]) = "Finished"
        /\ last.op = "start_game" /\ last.session_id = s
        /\ last.err = "AlreadyInitialized"
        /\ last.auth = Addrs
        /\ last.args[1] = sessions[s].creature /\ last.args[2] = sessions[s].gardener
        /\ last.args[3] # sessions[s].gardener_points

\* C5: start with gardener = creature fails with SelfPlayNotAllowed, stores no
\* session and calls no hub; so the two players of every stored session differ.
C5_NoSelfPlay ==
    [][/\ \A s \in SessionIds :
             (Called("start_game", s) /\ last'.args[1] = last'.args[2]) =>
                 /\ last'.err = "SelfPlayNotAllowed"
                 /\ UNCHANGED <<sessions, hub>>
       /\ \A s \in SessionIds :
             sessions'[s] # NoSession => sessions'[s].gardener # sessions'[s].creature]_vars

\* a self-play start on a fresh id, authorized by everyone, refused
C5_Witness ==
    /\ last.op = "start_game"
    /\ last.args[1] = last.args[2]
    /\ last.auth = Addrs
    /\ \A s \in SessionIds : ~HasSession(s)
    /\ last.err = "SelfPlayNotAllowed"

\* C6: after a successful start the new session has the creature at (2, 0),
\* phase WaitingForCommitment, turn 0, damage reduction 0, no revealed cell,
\* the players and stakes passed, and health 8 under FullMoon, 6 otherwise.
C6_FreshSession ==
    [][\A s \in SessionIds :
        Succeeded("start_game", s) =>
            LET n == sessions'[s]
            IN  /\ n.creature_x = 2 /\ n.creature_y = 0
                /\ n.phase = "WaitingForCommitment"
                /\ n.turn_number = 0 /\ n.damage_reduction = 0
                /\ n.revealed_cells = <<>>
                /\ <<n.gardener, n.creature, n.gardener_points, n.creature_points>>
                   = last'.args
                /\ n.session_id = s
                /\ n.creature_hp = IF n.moon_phase = "FullMoon" THEN 8 ELSE 6]_vars

\* a session just started under the Full Moon
C6_Witness ==
    \E s \in SessionIds :
        /\ last.op = "start_game" /\ last.session_id = s /\ last.err = "Ok"
        /\ HasSession(s)
        /\ sessions[s].moon_phase = "FullMoon"
        /\ sessions[s].creature_hp = 8

\* C7: a successful commit stores the committed value, and after it the stored
\* commitment never changes; the session id, both players, both stakes and the
\* moon phase of a stored session never change.
C7_CommitmentFixed ==
    [][\A s \in SessionIds :
        /\ Succeeded("commit_garden", s) =>
               sessions'[s].garden_commitment = last'.args[1]
        /\ (HasSession(s) /\ sessions[s].phase # "WaitingForCommitment") =>
               sessions'[s].garden_commitment = sessions[s].garden_commitment
        /\ HasSession(s) =>
               /\ sessions'[s] # NoSession
               /\ sessions'[s].session_id = sessions[s].session_id
               /\ sessions'[s].gardener = sessions[s].gardener
               /\ sessions'[s].creature = sessions[s].creature
               /\ sessions'[s].gardener_points = sessions[s].gardener_points
               /\ sessions'[s].creature_points = sessions[s].creature_points
               /\ sessions'[s].moon_phase = sessions[s].moon_phase]_vars

\* a second commit with another value, by the gardener, refused in mid-game
C7_Witness ==
    \E s \in SessionIds :
        /\ HasSession(s)
        /\ sessions[s].turn_number >= 1
        /\ last.op = "commit_garden" /\ last.session_id = s
        /\ sessions[s].gardener \in last.auth
        /\ last.args[1] # sessions[s].garden_commitment
        /\ last.err = "InvalidPhase"

\* C8: commit and reveal change a session only when its gardener authorized
\* the call, move only when its creature did, start only when both players
\* did; a call without the required authorization changes no session.
C8_AuthorizedChanges ==
    [][\A s \in SessionIds :
        sessions'[s] # sessions[s] =>
            /\ last'.session_id = s
            /\ CASE last'.op = "start_game" ->
                      {last'.args[1], last'.args[2]} \subseteq last'.auth
                 [] last'.op \in {"commit_garden", "reveal_cell"} ->
                      sessions[s].gardener \in last'.auth
                 [] last'.op = "creature_move" ->
                      sessions[s].creature \in last'.auth
                 [] OTHER -> FALSE]_vars

\* a reveal the gate would accept, authorized by the creature alone, aborted
C8_Witness ==
    \E s \in SessionIds :
        /\ PhaseOf(sessions[s]) = "WaitingForProof"
        /\ last.op = "reveal_cell" /\ last.session_id = s
        /\ last.auth = {sessions[s].creature}
        /\ last.err = AuthFailed

\* the movement rule as C9 states it
Abs(n) == IF n < 0 THEN -n ELSE n

LegalProposal(cx, cy, x, y) ==
    /\ y = cy + 1
    /\ x < 5
    /\ y < 5
    /\ (cy = 0 \/ Abs(x - cx) <= 1)

\* C9: in phase Playing with the creature at (cx, cy), a move(x, y) admitted by
\* the authorization check succeeds if and only if y = cy + 1, x < 5, y < 5 and
\* (cy = 0 or |x - cx| <= 1); every other proposal fails with InvalidMove and
\* leaves the session unchanged.
C9_MoveIffLegal ==
    [][\A s \in SessionIds :
        (/\ Called("creature_move", s)
         /\ PhaseOf(sessions[s]) = "Playing"
         /\ sessions[s].creature \in last'.auth) =>
            \A x \in MoveCoords, y \in MoveCoords :
                creature_move(s, x, y, last'.auth) =>
                    IF LegalProposal(sessions[s].creature_x, sessions[s].creature_y, x, y)
                    THEN /\ last'.err = "Ok"
                         /\ sessions'[s].creature_x = x
                         /\ sessions'[s].creature_y = y
                    ELSE /\ last'.err = "InvalidMove"
                         /\ sessions' = sessions]_vars

\* a proposal refused after the creature has left the entry row and column 2
C9_Witness ==
    \E s \in SessionIds :
        /\ PhaseOf(sessions[s]) = "Playing"
        /\ sessions[s].creature_y >= 1 /\ sessions[s].creature_x # 2
        /\ last.op = "creature_move" /\ last.session_id = s
        /\ sessions[s].creature \in last.auth
        /\ last.err = "InvalidMove"

\* C10: in phase WaitingForProof, a reveal admitted by the authorization check
\* whose journal is shorter than 32 bytes, or whose first 32 bytes differ from
\* the stored commitment, fails with CommitmentMismatch, whatever the journal
\* hash and the seal are.
C10_CommitmentGate ==
    [][\A s \in SessionIds :
        (Called("reveal_cell", s) /\ PhaseOf(sessions[s]) = "WaitingForProof") =>
            \A commitment \in Commitments, len \in JournalLens,
               hash_ok \in BOOLEAN, seal \in Seals :
                LET journal == SubSeq(Journal(s, commitment, sessions[s].creature_x,
                                              sessions[s].creature_y,
                                              Content(FALSE, 0, 0)), 1, len)
                    hash == IF hash_ok THEN Sha256(journal) ELSE WrongHash
                IN  (/\ reveal_cell(s, journal, hash, seal, Addrs)
                     /\ \/ Len(journal) < 32
                        \/ SubSeq(journal, 1, 32) # sessions[s].garden_commitment)
                    => /\ last'.err = "CommitmentMismatch"
                       /\ sessions' = sessions]_vars

\* a reveal refused for its commitment while the session waits for a proof
C10_Witness ==
    \E s \in SessionIds :
        /\ PhaseOf(sessions[s]) = "WaitingForProof"
        /\ last.op = "reveal_cell" /\ last.session_id = s
        /\ sessions[s].gardener \in last.auth
        /\ last.err = "CommitmentMismatch"

\* C11: with an empty seal, a reveal admitted by the authorization check in
\* phase WaitingForProof is accepted only if sha256 of the submitted journal
\* equals the journal hash passed; when the journal's commitment matches and
\* the hashes differ it fails with ProofVerificationFailed and nothing changes.
C11_DevHashGate ==
    [][\A s \in SessionIds :
        (Called("reveal_cell", s) /\ PhaseOf(sessions[s]) = "WaitingForProof") =>
            \A content \in GateContents, hash_ok \in BOOLEAN :
                LET journal == CellJournal(s, content)
                    hash == IF hash_ok THEN Sha256(journal) ELSE WrongHash
                IN  reveal_cell(s, journal, hash, <<>>, Addrs) =>
                        /\ last'.err = "Ok" => Sha256(journal) = hash
                        /\ Sha256(journal) # hash =>
                               /\ last'.err = "ProofVerificationFailed"
                               /\ UNCHANGED <<sessions, hub>>]_vars

\* a development-mode reveal of the right journal refused for its digest, in
\* mid-game (the only refusal SpecHash's authorized reveals can meet in
\* phase WaitingForProof)
C11_Witness ==
    \E s \in SessionIds :
        /\ PhaseOf(sessions[s]) = "WaitingForProof"
        /\ sessions[s].turn_number >= 2
        /\ last.op = "reveal_cell" /\ last.session_id = s
        /\ sessions[s].gardener \in last.auth
        /\ last.err = "ProofVerificationFailed"

\* C12: with a non-empty seal the verifier is invoked and its verdict gates
\* acceptance: in phase WaitingForProof a reveal of the right journal, with
\* its own digest or another, under a seal the verifier rejects fails with
\* ProofVerificationFailed and changes no state.
C12_VerifierGates ==
    [][\A s \in SessionIds :
        (Called("reveal_cell", s) /\ PhaseOf(sessions[s]) = "WaitingForProof") =>
            \A content \in GateContents, hash_ok \in BOOLEAN :
                LET journal == CellJournal(s, content)
                    hash == IF hash_ok THEN Sha256(journal) ELSE WrongHash
                IN  reveal_cell(s, journal, hash, NotAProof, Addrs) =>
                        /\ last'.err = "ProofVerificationFailed"
                        /\ UNCHANGED <<sessions, hub>>]_vars

\* C13: a reveal whose journal is not exactly 73 bytes long is never
\* accepted; when it is admitted by the authorization check in phase
\* WaitingForProof and its commitment and hash pass, it fails with
\* ProofVerificationFailed and the session and the hub are left as they were.
C13_ExactLength ==
    [][\A s \in SessionIds :
        (Called("reveal_cell", s) /\ PhaseOf(sessions[s]) = "WaitingForProof") =>
            \A content \in GateContents, len \in GateLens :
                LET journal == Resized(CellJournal(s, content), len)
                IN  reveal_cell(s, journal, Sha256(journal), <<>>, Addrs) =>
                        /\ last'.err = "Ok" => len = 73
                        /\ (len # 73 /\ len >= 32) =>
                               /\ last'.err = "ProofVerificationFailed"
                               /\ UNCHANGED <<sessions, hub>>]_vars

\* a reveal with matching commitment and digest refused in mid-game (in
\* SpecLength only a journal of 32 or more bytes whose length is not 73 is
\* refused with this error); the cell of the latest move is not recorded
C13_Witness ==
    \E s \in SessionIds :
        /\ PhaseOf(sessions[s]) = "WaitingForProof"
        /\ sessions[s].turn_number = 3
        /\ Len(sessions[s].revealed_cells) = 2
        /\ last.op = "reveal_cell" /\ last.session_id = s
        /\ sessions[s].gardener \in last.auth
        /\ last.err = "ProofVerificationFailed"

\* C14: in phase WaitingForProof, a reveal admitted by the authorization
\* check whose journal passes the commitment and hash checks and decodes to
\* (x, y) other than the creature's position fails with InvalidCoordinates
\* and changes nothing; an accepted reveal is for the creature's position, the
\* cell entered with the latest move, and records that cell.
C14_CurrentCellOnly ==
    [][\A s \in SessionIds :
        (Called("reveal_cell", s) /\ PhaseOf(sessions[s]) = "WaitingForProof") =>
            \A x \in 0..MaxCoord, y \in 0..MaxCoord, content \in GateContents :
                LET cx == sessions[s].creature_x
                    cy == sessions[s].creature_y
                    journal == Journal(s, sessions[s].garden_commitment, x, y, content)
                IN  reveal_cell(s, journal, Sha256(journal), <<>>, Addrs) =>
                        /\ (x # cx \/ y # cy) =>
                               /\ last'.err = "InvalidCoordinates"
                               /\ UNCHANGED <<sessions, hub>>
                        /\ last'.err = "Ok" =>
                               /\ x = cx /\ y = cy
                               /\ last'.result[1].x = cx /\ last'.result[1].y = cy
                               /\ sessions'[s].revealed_cells
                                  = Append(sessions[s].revealed_cells, cy * 5 + cx)]_vars

\* a reveal for another cell refused after the creature's second move, when
\* the cell of its first move is a stale position
C14_Witness ==
    \E s \in SessionIds :
        /\ PhaseOf(sessions[s]) = "WaitingForProof"
        /\ sessions[s].creature_y = 2
        /\ sessions[s].revealed_cells = <<7>>
        /\ last.op = "reveal_cell" /\ last.session_id = s
        /\ sessions[s].gardener \in last.auth
        /\ last.err = "InvalidCoordinates"

\* C15: in phase WaitingForProof, a reveal admitted by the authorization
\* check whose journal passes the commitment, hash and coordinate checks and
\* has has_plant set with a plant type outside {1, 2, 3} fails (with
\* ProofVerificationFailed), and the stored session (health, damage
\* reduction, phase, revealed cells) and the hub are as before.
C15_UnknownTypeRefused ==
    [][\A s \in SessionIds :
        (Called("reveal_cell", s) /\ PhaseOf(sessions[s]) = "WaitingForProof") =>
            \A content \in CellContents :
                LET journal == CellJournal(s, content)
                IN  (/\ reveal_cell(s, journal, Sha256(journal), <<>>, Addrs)
                     /\ content.has_plant
                     /\ content.plant_type \notin {1, 2, 3})
                    => /\ last'.err = "ProofVerificationFailed"
                       /\ UNCHANGED <<sessions, hub>>]_vars

\* a reveal of the creature's cell refused while a Lavender's damage
\* reduction is pending (in SpecType only a hazard of unrecognized type is
\* refused with this error)
C15_Witness ==
    \E s \in SessionIds :
        /\ PhaseOf(sessions[s]) = "WaitingForProof"
        /\ sessions[s].damage_reduction = 1
        /\ sessions[s].creature_hp < CREATURE_STARTING_HP
        /\ last.op = "reveal_cell" /\ last.session_id = s
        /\ sessions[s].gardener \in last.auth
        /\ last.err = "ProofVerificationFailed"

\* C16: a journal is bound to one session: a reveal on session s accepts a
\* journal only if the session id embedded in it is s and the key embedded in
\* it is the key of the gardener of s.
C16_SessionBound ==
    [][\A s \in SessionIds :
        Called("reveal_cell", s) =>
            \A made_for \in SessionIds, signer \in Addrs, content \in GateContents :
                LET journal == KeyedJournal(KeyOf(signer), made_for,
                                            sessions[s].garden_commitment,
                                            sessions[s].creature_x, sessions[s].creature_y,
                                            content)
                IN  (/\ reveal_cell(s, journal, Sha256(journal), <<>>, Addrs)
                     /\ last'.err = "Ok")
                    => /\ made_for = s
                       /\ signer = sessions[s].gardener]_vars

\* the damage rule as C17 states it
Max(a, b) == IF a >= b THEN a ELSE b

ClaimedBase(t) == CASE t = 1 -> 1 [] t = 2 -> 2 [] t = 3 -> 3

ClaimedMoonAdjust(d, m) ==
    CASE m = "FullMoon" -> Max(0, d - 1)
      [] m = "NewMoon" -> d + 1
      [] m = "Balanced" -> d

ClaimedDamage(t, m, reduction) ==
    Max(1, Max(0, ClaimedMoonAdjust(ClaimedBase(t), m) - reduction))

\* C17: an accepted reveal of a hazard of type t in {1, 2, 3} under moon phase
\* m with damage reduction r pending deals max(1, max(0, moonAdjust(base(t),
\* m) - r)): that is the damage returned and the health lost (down to 0);
\* Mint with no reduction pending deals 1 under FullMoon, 3 under NewMoon and
\* 2 under Balanced, and no hazard deals less than 1.
C17_DamageRule ==
    [][\A s \in SessionIds :
        (Succeeded("reveal_cell", s) /\ last'.result[1].has_plant) =>
            LET t == last'.result[1].plant_type
                m == sessions[s].moon_phase
                r == sessions[s].damage_reduction
                dealt == last'.result[1].damage_dealt
            IN  /\ t \in {1, 2, 3}
                /\ dealt = ClaimedDamage(t, m, r)
                /\ sessions'[s].creature_hp = Max(0, sessions[s].creature_hp - dealt)
                /\ dealt >= 1
                /\ (t = 2 /\ r = 0) =>
                       dealt = CASE m = "FullMoon" -> 1
                                 [] m = "NewMoon" -> 3
                                 [] m = "Balanced" -> 2]_vars

\* a second hazard revealed under the Full Moon, a Lavender: the moon modifier
\* brings its damage to 0 and 1 is dealt
C17_Witness ==
    \E s \in SessionIds :
        /\ HasSession(s)
        /\ sessions[s].moon_phase = "FullMoon"
        /\ sessions[s].creature_hp = 6
        /\ sessions[s].turn_number = 2
        /\ last.op = "reveal_cell" /\ last.session_id = s /\ last.err = "Ok"
        /\ last.result[1].plant_type = 1 /\ last.result[1].has_plant
        /\ last.result[1].damage_dealt = 1

\* C18 as stated: an accepted reveal of a Lavender sets the damage reduction
\* to 1; an accepted reveal of an empty cell leaves a reduction of 1 at 1; an
\* accepted reveal of a hazard while the reduction is 1 subtracts it from the
\* damage and leaves the reduction at 0.
C18_ReductionThenZero ==
    [][\A s \in SessionIds :
        Succeeded("reveal_cell", s) =>
            LET res == last'.result[1]
                before == sessions[s].damage_reduction
                after == sessions'[s].damage_reduction
            IN  /\ (res.has_plant /\ res.plant_type = 1) => after = 1
                /\ (~res.has_plant /\ before = 1) => after = 1
                /\ (res.has_plant /\ before = 1) =>
                       /\ res.damage_dealt
                          = ClaimedDamage(res.plant_type, sessions[s].moon_phase, 1)
                       /\ after = 0]_vars

\* C18 amended: an accepted reveal of a Lavender sets the damage reduction to
\* 1; an accepted reveal of an empty cell leaves a reduction of 1 at 1; an
\* accepted reveal of a hazard while the reduction is 1 subtracts it from the
\* damage and leaves the reduction at 0 when the hazard is a Mint or a
\* Mandrake, and at 1 again when it is itself a Lavender.
C18_ReductionConsumed ==
    [][\A s \in SessionIds :
        Succeeded("reveal_cell", s) =>
            LET res == last'.result[1]
                before == sessions[s].damage_reduction
                after == sessions'[s].damage_reduction
            IN  /\ (res.has_plant /\ res.plant_type = 1) => after = 1
                /\ (~res.has_plant /\ before = 1) => after = 1
                /\ (res.has_plant /\ before = 1) =>
                       /\ res.damage_dealt
                          = ClaimedDamage(res.plant_type, sessions[s].moon_phase, 1)
                       /\ after = IF res.plant_type = 1 THEN 1 ELSE 0]_vars

\* three reveals under the Balanced moon, one of them of an empty cell, the
\* last of a Mint that deals 1 instead of 2: a Lavender's reduction was
\* pending, and it is 0 afterwards
C18_Witness ==
    \E s \in SessionIds :
        /\ HasSession(s)
        /\ sessions[s].moon_phase = "Balanced"
        /\ Len(sessions[s].revealed_cells) = 3
        /\ sessions[s].creature_hp = 4
        /\ last.op = "reveal_cell" /\ last.session_id = s /\ last.err = "Ok"
        /\ last.result[1].has_plant /\ last.result[1].plant_type = 2
        /\ last.result[1].damage_dealt = 1
        /\ sessions[s].damage_reduction = 0

\* C19: an accepted reveal whose journal has has_plant false returns
\* damage_dealt = 0 and leaves the creature's health and the damage reduction
\* as they were, whatever the journal's damage and plant type bytes are.
C19_EmptyCellNoDamage ==
    [][\A s \in SessionIds :
        (Succeeded("reveal_cell", s) /\ ~last'.result[1].has_plant) =>
            /\ last'.result[1].damage_dealt = 0
            /\ sessions'[s].creature_hp = sessions[s].creature_hp
            /\ sessions'[s].damage_reduction = sessions[s].damage_reduction]_vars

\* the hub's record of the end of a game
EndGame(gardener_won) == [call |-> "end_game", player1_won |-> gardener_won]

\* C20: an accepted reveal ends in exactly one of three outcomes: health 0
\* after the damage: phase Finished and the gardener reported as winner;
\* otherwise creature row >= 4: phase Finished and the creature reported as
\* winner; otherwise phase Playing and nothing reported.  Health 0 on the
\* goal row is a win of the gardener.
C20_OutcomePriority ==
    [][\A s \in SessionIds :
        Succeeded("reveal_cell", s) =>
            LET hp == sessions'[s].creature_hp
                row == sessions'[s].creature_y
            IN  /\ hp = 0 =>
                       /\ sessions'[s].phase = "Finished"
                       /\ hub'[s] = Append(hub[s], EndGame(TRUE))
                /\ (hp # 0 /\ row >= 4) =>
                       /\ sessions'[s].phase = "Finished"
                       /\ hub'[s] = Append(hub[s], EndGame(FALSE))
                /\ (hp # 0 /\ row < 4) =>
                       /\ sessions'[s].phase = "Playing"
                       /\ hub'[s] = hub[s]]_vars

\* the creature dies on the goal row under the Full Moon, where it starts
\* with 8 and no hazard deals more than 2: the fourth reveal brings its health
\* to exactly 0 and is reported as a win of the gardener
C20_Witness ==
    \E s \in SessionIds :
        /\ PhaseOf(sessions[s]) = "Finished"
        /\ sessions[s].moon_phase = "FullMoon"
        /\ sessions[s].creature_hp = 0 /\ sessions[s].creature_y = 4
        /\ last.op = "reveal_cell" /\ last.session_id = s /\ last.err = "Ok"
        /\ last.result[1].has_plant /\ last.result[1].y = 4
        /\ hub[s][Len(hub[s])] = EndGame(TRUE)

\* the hub calls of one kind received for a session id
HubCalls(calls, kind) == SelectSeq(calls, LAMBDA c : c.call = kind)

\* C21: for every session id the hub's start_game is called exactly once, by
\* the successful start and while no session record is stored; the hub's
\* end_game is called at most once, exactly by the reveal that moves the
\* session to Finished, with player1_won true if and only if the creature's
\* health is 0; no failed call and no other reveal calls the hub.
C21_HubCalledOnce ==
    [][\A s \in SessionIds :
        /\ hub'[s] # hub[s] =>
               \/ /\ Succeeded("start_game", s)
                  /\ ~HasSession(s)
                  /\ hub[s] = <<>>
                  /\ Len(hub'[s]) = 1
                  /\ hub'[s][1].call = "start_game"
                  /\ ~hub'[s][1].session_stored
                  /\ <<hub'[s][1].player1, hub'[s][1].player2,
                       hub'[s][1].player1_points, hub'[s][1].player2_points>> = last'.args
               \/ /\ Succeeded("reveal_cell", s)
                  /\ PhaseOf(sessions[s]) # "Finished"
                  /\ PhaseOf(sessions'[s]) = "Finished"
                  /\ hub'[s] = Append(hub[s], EndGame(sessions'[s].creature_hp = 0))
        /\ Succeeded("start_game", s) => hub'[s] # hub[s]
        /\ (PhaseOf(sessions[s]) # "Finished" /\ PhaseOf(sessions'[s]) = "Finished")
               => hub'[s] # hub[s]
        /\ last'.err # "Ok" => hub' = hub
        /\ Len(HubCalls(hub'[s], "start_game")) = IF sessions'[s] = NoSession THEN 0 ELSE 1
        /\ Len(HubCalls(hub'[s], "end_game"))
           = IF PhaseOf(sessions'[s]) = "Finished" THEN 1 ELSE 0]_vars

\* a game the creature won by reaching the house: the hub has its start and
\* its end with player1_won false, and a later start on the same id, fully
\* authorized, was refused without a second call
C21_Witness ==
    \E s \in SessionIds :
        /\ PhaseOf(sessions[s]) = "Finished"
        /\ sessions[s].creature_hp > 0
        /\ Len(hub[s]) = 2
        /\ hub[s][1].call = "start_game"
        /\ hub[s][2] = EndGame(FALSE)
        /\ last.op = "start_game" /\ last.session_id = s
        /\ last.auth = Addrs
        /\ last.err = "AlreadyInitialized"

\* C22: a start, commit, move or reveal that returns an error (or is aborted
\* for missing authorization) leaves every stored session record, and the
\* hub, exactly as before the call.
C22_FailedCallsChangeNothing ==
    [][last'.err # "Ok" => UNCHANGED <<sessions, hub>>]_vars

\* a reveal refused while the session waits for a proof in its third turn,
\* with one cell recorded for each of the two turns before
C22_Witness ==
    \E s \in SessionIds :
        /\ PhaseOf(sessions[s]) = "WaitingForProof"
        /\ sessions[s].turn_number = 3
        /\ sessions[s].revealed_cells = <<7, 12>>
        /\ sessions[s].creature_y = 3
        /\ last.op = "reveal_cell" /\ last.session_id = s
        /\ sessions[s].gardener \in last.auth
        /\ last.err = "ProofVerificationFailed"

\* C23: for every journal value v, from_bytes(v.to_bytes()) is Some(v);
\* to_bytes yields exactly 73 bytes; from_bytes of a buffer whose length is
\* not 73 is None: no field is decoded.
C23_CodecRoundTrip ==
    /\ last.op = "to_bytes" => Len(last.result[1]) = 73
    /\ last.op = "from_bytes" =>
           IF Len(last.args[2]) = 73
           THEN last.result = <<last.args[1]>>
           ELSE last.result = <<>>

\* a value whose session id has four different bytes and whose plant type is
\* 255 on an empty cell came back from its 73 bytes
C23_Witness ==
    /\ last.op = "from_bytes"
    /\ last.result # <<>>
    /\ last.result[1].session_id = 16909060
    /\ last.result[1].plant_type = 255 /\ ~last.result[1].has_plant
    /\ last.result[1].x = 3 /\ last.result[1].y = 255
    /\ last.result[1].gardener_pubkey = KeyOf("bob")
    /\ SubSeq(last.args[2], 38, 41) = <<4, 3, 2, 1>>

\* the layout conditions as C24 states them
Recognized(cells) == \A n \in 1..25 : cells[n] \in {0, 1, 2, 3}

NonEmpty(cells, rows) == {n \in rows : cells[n] # 0}

HazardsIn(cells, rows) == {n \in rows : cells[n] \in {1, 2, 3}}

HouseRowEmpty(cells) == \A n \in 21..25 : cells[n] = 0

\* C24 as stated: validate returns Ok if and only if every cell is in
\* {0,1,2,3}, at most 7 cells are non-empty and row 4 is empty; it returns
\* TooManyPlants for 8 or more hazards in rows 0-3, PlantInHouseRow for a
\* hazard in row 4, InvalidPlantType for an unrecognized value.
C24_ValidateErrorPerCause ==
    last.op = "validate" =>
        LET cells == last.args[1]
        IN  /\ last.err = "Ok" <=>
                   /\ Recognized(cells)
                   /\ Cardinality(NonEmpty(cells, 1..25)) <= 7
                   /\ HouseRowEmpty(cells)
            /\ Cardinality(HazardsIn(cells, 1..20)) >= 8 => last.err = "TooManyPlants"
            /\ HazardsIn(cells, 21..25) # {} => last.err = "PlantInHouseRow"
            /\ ~Recognized(cells) => last.err = "InvalidPlantType"

\* the cells at which validate returns from inside its loop
Offending(cells) ==
    {n \in 1..25 : cells[n] \notin {0, 1, 2, 3} \/ (n \in 21..25 /\ cells[n] # 0)}

\* C24 amended: validate returns Ok if and only if every cell is in
\* {0,1,2,3}, at most 7 cells are non-empty and row 4 is empty; otherwise the
\* error is that of the first cell, in index order, that holds an
\* unrecognized value (InvalidPlantType) or a hazard in row 4
\* (PlantInHouseRow), and TooManyPlants when there is no such cell.
C24_ValidateFirstCause ==
    last.op = "validate" =>
        LET cells == last.args[1]
            first == CHOOSE n \in Offending(cells) : \A m \in Offending(cells) : n <= m
        IN  /\ last.err = "Ok" <=>
                   /\ Recognized(cells)
                   /\ Cardinality(NonEmpty(cells, 1..25)) <= 7
                   /\ HouseRowEmpty(cells)
            /\ last.err # "Ok" =>
                   last.err = IF Offending(cells) = {} THEN "TooManyPlants"
                              ELSE IF cells[first] \in {0, 1, 2, 3} THEN "PlantInHouseRow"
                              ELSE "InvalidPlantType"

\* a layout with more than 7 plants, a Lavender in the first cell of row 4
\* and the byte 255 in the last: refused for the Lavender
C24_Witness ==
    /\ last.op = "validate"
    /\ last.err = "PlantInHouseRow"
    /\ Cardinality(HazardsIn(last.args[1], 1..20)) = 9
    /\ last.args[1][21] = 1
    /\ last.args[1][25] = 255

\* C25: the commitment of a layout is the hash of its 25 cell bytes followed
\* by its 16 salt bytes, and two layouts have the same commitment exactly
\* when they are the same layout (the hash taken as injective).
C25_CommitmentBindsLayout ==
    last.op = "compute_garden_commitment" =>
        /\ \A k \in 1..Len(last.args) :
               LET garden == last.args[k]
                   preimage == last.result[k][2]
               IN  /\ last.result[k][1] = "sha256"
                   /\ Len(preimage) = 41
                   /\ \A n \in 1..25 : preimage[n] = garden.cells[n]
                   /\ \A n \in 1..16 : preimage[25 + n] = garden.salt[n]
        /\ Len(last.args) = 2 =>
               (last.result[1] = last.result[2] <=> last.args[1] = last.args[2])

\* two layouts with the same cells whose salts differ in the last byte only
C25_Witness ==
    /\ last.op = "compute_garden_commitment"
    /\ Len(last.args) = 2
    /\ last.args[1].cells = last.args[2].cells
    /\ last.args[1].cells[13] = 1
    /\ last.args[1].salt[16] = 0
    /\ last.args[2].salt[16] = 1
    /\ last.result[1] # last.result[2]

\* the moon phase C26 gives for a first hash byte b
ClaimedMoonPhase(b) ==
    IF b % 100 \in 0..19 THEN "FullMoon"
    ELSE IF b % 100 \in 20..39 THEN "NewMoon"
    ELSE "Balanced"

\* C26: the moon phase of every stored session, whoever plays it for whatever
\* stakes, and every result of determine_moon_phase, is the one the first
\* hash byte b of the session id gives: FullMoon for b mod 100 in [0,20),
\* NewMoon in [20,40), Balanced in [40,100).
C26_MoonPhaseBySessionId ==
    /\ \A s \in SessionIds :
           HasSession(s) => sessions[s].moon_phase = ClaimedMoonPhase(KeccakFirstByte(s))
    /\ last.op = "determine_moon_phase" =>
           last.result[1] = ClaimedMoonPhase(KeccakFirstByte(last.args[1]))

\* session 4 started a second way (bob gardening, the other stakes) next to
\* two other sessions, each with the phase of its id
C26_Witness ==
    /\ last.op = "start_game"
    /\ last.err = "Ok"
    /\ last.session_id = 4
    /\ last.args = <<"bob", "alice", 0, 250>>
    /\ sessions[4].moon_phase = "FullMoon"
    /\ HasSession(0) /\ sessions[0].moon_phase = "NewMoon"
    /\ HasSession(1) /\ sessions[1].moon_phase = "Balanced"

\* C27: a successful move to (x, y) sets the creature's position to (x, y),
\* the phase to WaitingForProof and the turn counter one higher, and leaves
\* health, status counter, commitment, revealed cells, players, stakes and
\* moon phase as they were.
C27_MoveEffect ==
    [][\A s \in SessionIds :
        (Succeeded("creature_move", s) /\ HasSession(s)) =>
            \A x \in MoveCoords, y \in MoveCoords :
                creature_move(s, x, y, last'.auth) =>
                    LET before == sessions[s]
                        after == sessions'[s]
                    IN  /\ after.creature_x = x
                        /\ after.creature_y = y
                        /\ after.phase = "WaitingForProof"
                        /\ after.turn_number = before.turn_number + 1
                        /\ after.creature_hp = before.creature_hp
                        /\ after.damage_reduction = before.damage_reduction
                        /\ after.garden_commitment = before.garden_commitment
                        /\ after.revealed_cells = before.revealed_cells
                        /\ after.gardener = before.gardener
                        /\ after.creature = before.creature
                        /\ after.gardener_points = before.gardener_points
                        /\ after.creature_points = before.creature_points
                        /\ after.moon_phase = before.moon_phase]_vars

\* the second move of game 1, sideways to column 3, after a Mandrake took 3
\* of the 6 health
C27_Witness ==
    /\ last.op = "creature_move"
    /\ last.err = "Ok"
    /\ HasSession(1)
    /\ sessions[1].creature_x = 3
    /\ sessions[1].creature_y = 2
    /\ sessions[1].phase = "WaitingForProof"
    /\ sessions[1].turn_number = 2
    /\ sessions[1].creature_hp = 3
    /\ Len(sessions[1].revealed_cells) = 1

\* damage bytes a journal may carry instead of the submitted one
OtherDamageBytes == {0, 1, 2, 9, 255}

\* C28: an accepted reveal of a hazard leaves the health at
\* max(0, health before - damage dealt), where the damage dealt is the
\* contract's own value for the plant type, moon phase and status counter;
\* the same journal with any other damage byte gives the same session, the
\* same hub calls and the same returned result.
C28_JournalDamageIgnored ==
    [][\A s \in SessionIds, content \in CellContents, damage \in OtherDamageBytes :
        (/\ HasSession(s)
         /\ content.has_plant
         /\ reveal_cell(s, CellJournal(s, content), Sha256(CellJournal(s, content)), <<>>, Addrs)
         /\ last'.err = "Ok") =>
            LET other == CellJournal(s, [content EXCEPT !.damage = damage])
                before == sessions[s]
                computed == ClaimedDamage(content.plant_type, before.moon_phase,
                                          before.damage_reduction)
            IN  /\ reveal_cell(s, other, Sha256(other), <<>>, Addrs)
                /\ last'.result[1].damage_dealt = computed
                /\ sessions'[s].creature_hp = Max(0, before.creature_hp - computed)]_vars

\* a Mandrake revealed on the first turn of game 1 (Balanced): the journals
\* carrying 1 and 9 both deal the contract's 3
C28_Witness ==
    /\ last.op = "reveal_cell" /\ last.err = "Ok" /\ last.session_id = 1
    /\ HasSession(1)
    /\ sessions[1].turn_number = 1
    /\ last.result[1].has_plant
    /\ last.result[1].plant_type = 3
    /\ last.result[1].damage_dealt = 3
    /\ sessions[1].creature_hp = 3

\* C29: in every reachable state the turn counter of a session equals the
\* creature's row, and the number of accepted reveals (completed turns) when
\* no reveal is awaited, one more when one is; no step lowers it, and the
\* only step that changes it is a successful move, which adds exactly 1.
C29_TurnCounter ==
    /\ [](\A s \in SessionIds :
             HasSession(s) =>
                 /\ sessions[s].turn_number = sessions[s].creature_y
                 /\ sessions[s].turn_number =
                        Len(sessions[s].revealed_cells) +
                            (IF sessions[s].phase = "WaitingForProof" THEN 1 ELSE 0))
    /\ [][\A s \in SessionIds :
             HasSession(s) =>
                 /\ HasSession(s)'
                 /\ sessions'[s].turn_number >= sessions[s].turn_number
                 /\ (sessions'[s].turn_number # sessions[s].turn_number
                        <=> Succeeded("creature_move", s))
                 /\ Succeeded("creature_move", s) =>
                        sessions'[s].turn_number = sessions[s].turn_number + 1]_vars

\* three completed turns: the third reveal accepted, the counter at 3
C29_Witness ==
    \E s \in SessionIds :
        /\ HasSession(s)
        /\ last.op = "reveal_cell" /\ last.err = "Ok" /\ last.session_id = s
        /\ sessions[s].phase = "Playing"
        /\ Len(sessions[s].revealed_cells) = 3
        /\ sessions[s].turn_number = 3
        /\ sessions[s].creature_y = 3

\* C30: an accepted reveal appends the one entry y*5 + x of the creature's
\* position to the end of the revealed-cell list of its session, keeping the
\* entries before it in place; every other step (a failed reveal, any other
\* call, a call on another session) leaves the list as it was.
C30_RevealedCellsAppendOnly ==
    [][\A s \in SessionIds :
        HasSession(s) =>
            LET before == sessions[s].revealed_cells
                after == sessions'[s].revealed_cells
                cell == sessions[s].creature_y * 5 + sessions[s].creature_x
            IN  /\ HasSession(s)'
                /\ Succeeded("reveal_cell", s) =>
                       /\ Len(after) = Len(before) + 1
                       /\ after[Len(after)] = cell
                       /\ \A k \in 1..Len(before) : after[k] = before[k]
                /\ ~Succeeded("reveal_cell", s) => after = before]_vars

\* the third accepted reveal of a game walked down column 2
C30_Witness ==
    \E s \in SessionIds :
        /\ HasSession(s)
        /\ last.op = "reveal_cell" /\ last.err = "Ok" /\ last.session_id = s
        /\ sessions[s].revealed_cells = <<7, 12, 17>>

\* the error C31 gives for a reveal with these faults on a session
ClaimedRevealError(session_id, faults) ==
    IF ~HasSession(session_id) THEN "SessionNotFound"
    ELSE IF sessions[session_id].phase # "WaitingForProof" THEN "InvalidPhase"
    ELSE IF "commitment" \in faults THEN "CommitmentMismatch"
    ELSE IF "hash" \in faults THEN "ProofVerificationFailed"
    ELSE IF "length" \in faults THEN "ProofVerificationFailed"
    ELSE IF "coordinates" \in faults THEN "InvalidCoordinates"
    ELSE IF "type" \in faults THEN "ProofVerificationFailed"
    ELSE "Ok"

\* C31: a reveal authorized by the gardener reports the first check that
\* fails in the order session exists, phase, commitment, hash, length,
\* coordinates, hazard type; so a wrong commitment with a wrong hash gives
\* CommitmentMismatch and wrong coordinates with an unrecognized type give
\* InvalidCoordinates.
C31_FirstFailureReported ==
    [][\A s \in SessionIds :
        Called("reveal_cell", s) =>
            \A faults \in FaultSets :
                reveal_cell(s, FaultyJournal(s, faults), FaultyHash(s, faults), <<>>, Addrs) =>
                    /\ last'.err = ClaimedRevealError(s, faults)
                    /\ (HasSession(s) /\ sessions[s].phase = "WaitingForProof") =>
                           /\ {"commitment", "hash"} \subseteq faults
                                  => last'.err = "CommitmentMismatch"
                           /\ (faults = {"coordinates", "type"})
                                  => last'.err = "InvalidCoordinates"]_vars

\* a reveal awaited on the second turn and refused for its coordinates: its
\* journal has the wrong cell and the unrecognized type
C31_Witness ==
    \E s \in SessionIds :
        /\ HasSession(s)
        /\ sessions[s].phase = "WaitingForProof"
        /\ sessions[s].turn_number = 2
        /\ last.op = "reveal_cell" /\ last.session_id = s
        /\ last.err = "InvalidCoordinates"

\* C32: for every journal value v, the contract reads from v.to_bytes(), a
\* buffer of 73 bytes, v's commitment (bytes 0..31), x (32), y (33),
\* has_plant (34) and plant type (35).
C32_ContractReadsProducerLayout ==
    last.op = "decode_journal" =>
        LET v == last.args[1]
            journal == last.args[2]
            commitment == last.result[1]
            decoded == last.result[2]
        IN  /\ Len(journal) = 73
            /\ commitment = <<v.garden_commitment>>
            /\ decoded # <<>>
            /\ decoded[1].x = v.x /\ journal[32 + 1] = v.x
            /\ decoded[1].y = v.y /\ journal[33 + 1] = v.y
            /\ decoded[1].has_plant = v.has_plant /\ (journal[34 + 1] # 0) = v.has_plant
            /\ decoded[1].plant_type = v.plant_type /\ journal[35 + 1] = v.plant_type

\* a Mandrake at (1, 255) under the second commitment, for a session id of
\* four significant bytes, read back by the contract
C32_Witness ==
    /\ last.op = "decode_journal"
    /\ last.args[1].session_id = 16909060
    /\ last.args[1].garden_commitment = Bytes32(0, 1)
    /\ last.result[1] = <<Bytes32(0, 1)>>
    /\ last.result[2][1].x = 1 /\ last.result[2][1].y = 255
    /\ last.result[2][1].has_plant /\ last.result[2][1].plant_type = 3

\* C33: the guest commits a journal exactly when x and y are in [0,5), the
\* layout satisfies the layout conditions and its commitment (the hash of
\* cells then salt) is the expected one; the journal then decodes to that
\* commitment, the input's x, y, session id and key, the plant type of the
\* cell y*5 + x, and has_plant true exactly for the types 1, 2, 3.
C33_GuestJournal ==
    last.op = "guest_main" =>
        LET input == last.args[1]
            cells == input.garden.cells
            accepted ==
                /\ input.x \in 0..4 /\ input.y \in 0..4
                /\ Recognized(cells)
                /\ Cardinality(NonEmpty(cells, 1..25)) <= 7
                /\ HouseRowEmpty(cells)
                /\ input.expected_commitment
                       = DigestBytes(Sha256(cells \o input.garden.salt))
        IN  /\ last.result # <<>> <=> accepted
            /\ last.result # <<>> =>
                   LET out == from_bytes(last.result[1])[1]
                       value == cells[input.y * 5 + input.x + 1]
                   IN  /\ Len(last.result[1]) = 73
                       /\ out.garden_commitment = input.expected_commitment
                       /\ out.x = input.x /\ out.y = input.y
                       /\ out.session_id = input.session_id
                       /\ out.gardener_pubkey = input.gardener_pubkey
                       /\ out.plant_type = value
                       /\ out.has_plant <=> value \in {1, 2, 3}

\* the Mandrake at (4, 3) of the planted layout revealed for bob's session
\* 16909060
C33_Witness ==
    /\ last.op = "guest_main"
    /\ last.err = "Ok"
    /\ last.args[1].garden.cells = PlantedCells
    /\ last.args[1].x = 4 /\ last.args[1].y = 3
    /\ last.args[1].session_id = 16909060
    /\ last.args[1].gardener_pubkey = KeyOf("bob")
    /\ from_bytes(last.result[1])[1].plant_type = 3
    /\ from_bytes(last.result[1])[1].has_plant

\* C34: for every valid layout, (x, y) inside the grid, session id and key,
\* the development prover returns the 73 journal bytes the circuit commits
\* for the same input, whatever the plant in the cell, with the hash of
\* those bytes and an empty seal.
C34_DevProverSimulatesCircuit ==
    last.op = "generate_cell_reveal_proof_dev" =>
        LET input == last.args[1]
            dev == last.result[1]
            guest == last.result[2]
        IN  (/\ validate(input.garden.cells) = "Ok"
             /\ input.x \in 0..4 /\ input.y \in 0..4) =>
                /\ dev # <<>> /\ guest # <<>>
                /\ Len(dev[1].journal_bytes) = 73
                /\ dev[1].journal_bytes = guest[1]
                /\ dev[1].journal_hash = Sha256(dev[1].journal_bytes)
                /\ dev[1].seal = <<>>

\* C35: a call on session b, successful or failing, leaves the record and
\* the hub calls of every other session a as they were, and the outcome of
\* every call on a (a start by any players, a commit, a move to any row, a
\* reveal of any content) is the same after the call on b as before it.
C35_SessionsIndependent ==
    [][\A a \in PairIds, b \in PairIds :
        (a # b /\ last'.session_id = b /\ last'.op \in SessionOps \cup {"start_game"}) =>
            /\ sessions'[a] = sessions[a]
            /\ hub'[a] = hub[a]
            /\ \A gardener \in Addrs, creature \in Addrs :
                   StartError(a, gardener, creature, Addrs)'
                       = StartError(a, gardener, creature, Addrs)
            /\ CommitError(a, Addrs)' = CommitError(a, Addrs)
            /\ \A y \in 0..MaxCoord :
                   MoveError(a, 2, y, Addrs)' = MoveError(a, 2, y, Addrs)
            /\ \A content \in CellContents :
                   RevealError(a, SessionJournal(a, content),
                               Sha256(SessionJournal(a, content)), <<>>, Addrs)'
                       = RevealError(a, SessionJournal(a, content),
                                     Sha256(SessionJournal(a, content)), <<>>, Addrs)]_vars

\* session 4 finishes at the house while session 1 still awaits its first
\* reveal with its full health
C35_Witness ==
    /\ HasSession(1) /\ HasSession(4)
    /\ last.op = "reveal_cell" /\ last.session_id = 4 /\ last.err = "Ok"
    /\ sessions[4].phase = "Finished"
    /\ sessions[4].creature_y = 4
    /\ sessions[1].phase = "WaitingForProof"
    /\ sessions[1].turn_number = 1
    /\ sessions[1].creature_hp = 6

\* C36: in every reachable state the creature's x and y are in [0,4]; while
\* the phase is Playing the row is at most 3 and the health at least 1, and
\* some proposal (x, y) of the creature is accepted.
C36_PositionInGrid ==
    \A s \in SessionIds :
        HasSession(s) =>
            /\ sessions[s].creature_x \in 0..4
            /\ sessions[s].creature_y \in 0..4
            /\ sessions[s].phase = "Playing" =>
                   /\ sessions[s].creature_y <= 3
                   /\ sessions[s].creature_hp >= 1
                   /\ \E x \in 0..4, y \in 0..4 :
                          MoveError(s, x, y, {sessions[s].creature}) = "Ok"

\* the creature in the corner cell (4, 3), one row from the house, with 3
\* health left after a Mandrake, and to move
C36_Witness ==
    \E s \in SessionIds :
        /\ HasSession(s)
        /\ sessions[s].phase = "Playing"
        /\ sessions[s].creature_x = 4
        /\ sessions[s].creature_y = 3
        /\ sessions[s].creature_hp = 3
        /\ last.op = "reveal_cell" /\ last.err = "Ok"

\* C37: the turn counter and the number of accepted reveals of a session
\* never exceed 4, and when the creature keeps proposing a legal move and
\* the gardener keeps submitting an acceptable reveal, every session whose
\* garden is committed eventually reaches Finished.
C37_GameTerminates ==
    /\ [](\A s \in SessionIds :
             HasSession(s) =>
                 /\ sessions[s].turn_number <= 4
                 /\ Len(sessions[s].revealed_cells) <= 4)
    /\ \A s \in SessionIds :
           (HasSession(s) /\ sessions[s].phase \in {"Playing", "WaitingForProof"})
               ~> (HasSession(s) /\ sessions[s].phase = "Finished")

\* a game finished at the house by its fourth accepted reveal, the creature
\* alive
C37_Witness ==
    \E s \in SessionIds :
        /\ HasSession(s)
        /\ sessions[s].phase = "Finished"
        /\ sessions[s].turn_number = 4
        /\ Len(sessions[s].revealed_cells) = 4
        /\ sessions[s].creature_hp > 0
        /\ last.op = "reveal_cell" /\ last.err = "Ok"

\* C38: in every reachable state the damage reduction of a session is 0 or
\* 1, its health is at most the starting value (8 under the Full Moon, else
\* 6), health 0 occurs only in phase Finished, and in phase Finished the
\* health is 0 or the row is 4; no step raises the health.
C38_HealthAndStatus ==
    /\ [](\A s \in SessionIds :
             HasSession(s) =>
                 /\ sessions[s].damage_reduction \in {0, 1}
                 /\ sessions[s].creature_hp >= 0
                 /\ sessions[s].creature_hp
                        <= (IF sessions[s].moon_phase = "FullMoon" THEN 8 ELSE 6)
                 /\ sessions[s].creature_hp = 0 => sessions[s].phase = "Finished"
                 /\ sessions[s].phase = "Finished" =>
                        sessions[s].creature_hp = 0 \/ sessions[s].creature_y = 4)
    /\ [][\A s \in SessionIds :
             HasSession(s) =>
                 /\ HasSession(s)'
                 /\ sessions'[s].creature_hp <= sessions[s].creature_hp]_vars

\* under the New Moon a Lavender, met with the reduction of an earlier one,
\* takes the last health point on row 3
C38_Witness ==
    \E s \in SessionIds :
        /\ HasSession(s)
        /\ sessions[s].moon_phase = "NewMoon"
        /\ sessions[s].phase = "Finished"
        /\ sessions[s].creature_hp = 0
        /\ sessions[s].creature_y = 3
        /\ sessions[s].damage_reduction = 1
        /\ last.op = "reveal_cell" /\ last.err = "Ok"
        /\ last.result[1].damage_dealt = 1

\* C39: within a session the k-th entry of the revealed-cell list lies in row
\* k, the list holds no cell index twice, and the journal of a cell of the
\* list is not accepted again: an accepted reveal appends the index of the
\* cell of its journal, and in every state the journal of every cell of the
\* list, with any content, is refused.
C39_OneRevealPerRow ==
    /\ [](\A s \in SessionIds :
             HasSession(s) =>
                 LET cells == sessions[s].revealed_cells
                 IN  /\ Len(cells) <= GRID_SIZE - 1
                     /\ \A k \in 1..Len(cells) : cells[k] \div GRID_SIZE = k
                     /\ \A k, m \in 1..Len(cells) : cells[k] = cells[m] => k = m
                     /\ \A k \in 1..Len(cells), content \in RowsContents :
                            LET journal == IndexJournal(s, cells[k], content)
                            IN  RevealError(s, journal, Sha256(journal), <<>>, Addrs) # "Ok")
    /\ [][\A s \in SessionIds :
             (Succeeded("reveal_cell", s) /\ HasSession(s)) =>
                 \A cell_index \in RowsCells(sessions[s]), content \in RowsContents :
                     LET journal == IndexJournal(s, cell_index, content)
                     IN  reveal_cell(s, journal, Sha256(journal), <<>>, Addrs) =>
                             sessions'[s].revealed_cells
                                 = Append(sessions[s].revealed_cells, cell_index)]_vars

\* with two cells of different columns revealed and the creature waiting on
\* a third, the journal of a cell revealed before is refused
C39_Witness ==
    \E s \in SessionIds :
        /\ HasSession(s)
        /\ sessions[s].phase = "WaitingForProof"
        /\ Len(sessions[s].revealed_cells) = 2
        /\ sessions[s].revealed_cells[1] % GRID_SIZE # sessions[s].revealed_cells[2] % GRID_SIZE
        /\ sessions[s].creature_y = 3
        /\ last.op = "reveal_cell" /\ last.err = "InvalidCoordinates"

\* C40: in a Full Moon session whose accepted reveals all report the cells
\* of one committed layout that validate accepts, the health of the creature
\* is never 0, the session is Finished only on row 4, and the hub is never
\* told that the gardener won.
C40_FullMoonTraverserWins ==
    \A s \in SessionIds :
        (HasSession(s) /\ sessions[s].moon_phase = "FullMoon") =>
            /\ sessions[s].creature_hp >= 1
            /\ sessions[s].phase = "Finished" =>
                   /\ sessions[s].creature_y = GRID_SIZE - 1
                   /\ \E n \in 1..Len(hub[s]) :
                         hub[s][n].call = "end_game" /\ ~hub[s][n].player1_won
            /\ \A n \in 1..Len(hub[s]) :
                   hub[s][n].call = "end_game" => ~hub[s][n].player1_won

\* a Full Moon session finished on row 4 after three Mandrakes, each of
\* which took 2 of the 8 health points
C40_Witness ==
    \E s \in SessionIds :
        /\ HasSession(s)
        /\ sessions[s].moon_phase = "FullMoon"
        /\ sessions[s].phase = "Finished"
        /\ sessions[s].creature_hp = 2
        /\ Len(sessions[s].revealed_cells) = 4
        /\ last.op = "reveal_cell" /\ last.err = "Ok"
        /\ ~last.result[1].has_plant
        /\ \E n \in 1..Len(hub[s]) : hub[s][n].call = "end_game" /\ ~hub[s][n].player1_won

====
